---- MODULE Spec2Model ----
(***************************************************************************)
(* Model of the do-not-contact resolution pipeline: the SQLite state store *)
(* (db.ts), the channel selector (contact-finder.ts), the search client    *)
(* (search.ts) and the batch command (index.ts).                           *)
(*                                                                         *)
(* JavaScript / SQL strings are sequences of one-character strings, so     *)
(* that toLowerCase, startsWith and truthiness are computed as the code    *)
(* computes them.  NULL (SQL NULL, JS null/undefined) is a value no string *)
(* equals.                                                                 *)
(***************************************************************************)
EXTENDS Integers, Sequences, FiniteSets, TLC

VARIABLES
    organizations,  \* table organizations: name -> row
    attempts,       \* table attempts: sequence of rows, in insertion order
    now,            \* CURRENT_TIMESTAMP, in seconds
    pc,             \* position of the batch command
    pendingOrgs,    \* batch: the rows returned by getOrgsByStatus("pending")
    idx,            \* batch: position of the for loop in pendingOrgs
    searchResult,   \* batch: result of search.findContactPage
    extracted,      \* batch: what the page gave extractContactInfo
    contactInfo,    \* batch: result of extractContactInfo
    orgs0,          \* history: table organizations when the running pass started
    attempts0,      \* history: table attempts when the running pass started
    spc,            \* position of the send-emails command
    orgsToEmail,    \* send-emails: the rows it sends to
    sidx,           \* send-emails: position of the for loop in orgsToEmail
    transporter,    \* email-sender: the SMTP transport exists
    outbox,         \* messages handed to transporter.sendMail, in order
    sent,           \* send-emails: tally of successful sends
    failed,         \* send-emails: tally of failed sends
    logFiles,       \* logger: file name -> the entries appended to it
    currentLogFile, \* logger: the file of the running send-emails command
    verified,       \* send-emails: what await verifyTransport() gave
    clockMs,        \* Date.now()
    lastRequestTime,\* BraveSearch.lastRequestTime
    callers,        \* callers of BraveSearch.rateLimit: position and timer
    stamps,         \* history: the values lastRequestTime was stamped with
    rankInput,      \* assessConfidence: orgName and result
    confidence,     \* assessConfidence: what it returned
    selInput,       \* extractContactInfo: contactUrl and what the page gave
    selected        \* extractContactInfo: what it returned

batchLocals == <<pendingOrgs, idx, searchResult, extracted, contactInfo>>

sendVars == <<spc, orgsToEmail, sidx, transporter, outbox, sent, failed,
              logFiles, currentLogFile, verified>>

limiterVars == <<clockMs, lastRequestTime, callers, stamps>>

functionVars == <<rankInput, confidence, selInput, selected>>

\* the state import, batch and the store functions leave alone
otherVars == <<sendVars, limiterVars, functionVars>>

\* the state of the store and of the batch command
pipelineVars == <<organizations, attempts, now, pc, batchLocals, orgs0, attempts0>>

vars == <<pipelineVars, otherVars>>

------------------------------------------------------------------------------
(* Bounds *)

\* number of seconds the clock runs to: searches are at least minDelayMs apart,
\* so each stage A call of a behaviour falls in a second of its own
MaxClock == 2
\* length of the list given to import
MaxImport == 2
\* length of the email list an extraction returns
MaxEmails == 1
\* rows of the attempts table written through the store interface alone
MaxLog == 2

------------------------------------------------------------------------------
(* Strings *)

NULL == <<"<NULL>">>

\* JS truthiness of a string | null | undefined
Truthy(s) == s # NULL /\ s # <<>>

\* a || b
OrElse(a, b) == IF Truthy(a) THEN a ELSE b

\* mutant: the first argument always wins
COALESCE_Overwrite(a, b) == a

\* a ?? b, and SQL COALESCE(a, b)
COALESCE(a, b) == IF a # NULL THEN a ELSE b

UpperChars == <<"A","B","C","D","E","F","G","H","I","J","K","L","M",
                "N","O","P","Q","R","S","T","U","V","W","X","Y","Z">>
LowerChars == <<"a","b","c","d","e","f","g","h","i","j","k","l","m",
                "n","o","p","q","r","s","t","u","v","w","x","y","z">>

toLowerChar(c) ==
    IF \E k \in 1..26 : UpperChars[k] = c
    THEN LowerChars[CHOOSE k \in 1..26 : UpperChars[k] = c]
    ELSE c

toLowerCase(s) == [k \in 1..Len(s) |-> toLowerChar(s[k])]

startsWith(s, p) == Len(s) >= Len(p) /\ SubSeq(s, 1, Len(p)) = p

includes(s, p) ==
    \E k \in 0..(Len(s) - Len(p)) : SubSeq(s, k + 1, k + Len(p)) = p

------------------------------------------------------------------------------
(* Inputs: the strings the collaborators hand back *)

JaneEmail == <<"j","a","n","e","@","o","r","g",".","o","r","g">>
InfoEmail == <<"I","n","f","o","@","o","r","g",".","o","r","g">>
HomeUrl == <<"h","t","t","p","s",":","/","/","a","c","m","e",".","o","r","g","/">>
ContactUrl == <<"h","t","t","p","s",":","/","/","a","c","m","e",".","o","r","g","/","c","o","n","t","a","c","t">>
PlainContactUrl == <<"h","t","t","p",":","/","/","a","c","m","e",".","o","r","g","/","c","o","n","t","a","c","t">>
FormActionUrl == <<"h","t","t","p","s",":","/","/","a","c","m","e",".","o","r","g","/","s","e","n","d">>
HomeTitle == <<"A","c","m","e">>
ContactTitle == <<"C","o","n","t","a","c","t"," ","u","s">>
ErrTimeout == <<"T","i","m","e","o","u","t"," ","3","0","0","0","0","m","s"," ","e","x","c","e","e","d","e","d">>
ErrFetch == <<"f","e","t","c","h"," ","f","a","i","l","e","d">>

\* organization names, in ascending (ORDER BY name) order
OrgNames == <<"Acme Org", "Beta Fund">>
Names == {OrgNames[k] : k \in 1..Len(OrgNames)}

\* all sequences over S of length at most n
RECURSIVE SeqsUpTo(_, _)
SeqsUpTo(S, n) ==
    IF n = 0 THEN {<<>>}
    ELSE LET shorter == SeqsUpTo(S, n - 1)
         IN  shorter \cup {Append(q, x) : q \in shorter, x \in S}

\* the emails an extraction of the pipeline may list; the empty string is a
\* z.string() like any other
EmailPool == {<<>>, InfoEmail}

\* what stagehand.page.goto / page.extract do: throw, or return an object
\* matching ContactSchema (formAction is optional: NULL when absent)
PageOutcomes ==
    [threw : {TRUE}, message : {ErrTimeout, <<>>},
     emails : {<<>>}, hasContactForm : {FALSE}, formAction : {NULL}]
    \cup
    [threw : {FALSE}, message : {NULL},
     emails : SeqsUpTo(EmailPool, MaxEmails), hasContactForm : BOOLEAN,
     formAction : {NULL, FormActionUrl}]

\* what fetch does: throw, answer with a non-2xx status, or answer with JSON
SearchResponses ==
    { [kind |-> "threw", message |-> ErrFetch, status |-> <<>>, text |-> <<>>,
       results |-> <<>>],
      [kind |-> "json", message |-> NULL, status |-> <<>>, text |-> <<>>,
       results |-> <<>>],
      [kind |-> "json", message |-> NULL, status |-> <<>>, text |-> <<>>,
       results |-> << [title |-> HomeTitle, url |-> HomeUrl],
                      [title |-> ContactTitle, url |-> ContactUrl] >>] }

\* a later search of the same organization answers with a first result under
\* another origin
MovedResponses ==
    { [kind |-> "json", message |-> NULL, status |-> <<>>, text |-> <<>>,
       results |-> << [title |-> ContactTitle, url |-> PlainContactUrl] >>] }

------------------------------------------------------------------------------
(* contact-finder.ts *)

\* Array.prototype.find: the first element satisfying the test, else undefined
findPrefixed(emails, prefix) ==
    LET hits == {k \in 1..Len(emails) : startsWith(toLowerCase(emails[k]), prefix)}
    IN  IF hits = {} THEN NULL
        ELSE emails[CHOOSE k \in hits : \A j \in hits : k <= j]

priorityPrefixes ==
    << <<"i","n","f","o","@">>,
       <<"c","o","n","t","a","c","t","@">>,
       <<"s","u","p","p","o","r","t","@">>,
       <<"h","e","l","p","@">>,
       <<"h","e","l","l","o","@">> >>

\* mutant: a form hides the emails
contactTypeOf_FormWins(hasEmail, hasForm) ==
    IF hasForm THEN "form" ELSE IF hasEmail THEN "email" ELSE "none"

contactTypeOf(hasEmail, hasForm) ==
    IF hasEmail /\ hasForm THEN "both"
    ELSE IF hasEmail THEN "email"
    ELSE IF hasForm THEN "form"
    ELSE "none"

\* mutant: the first candidate that matches any prefix
pickBestEmail_ListOrder(emails) ==
    IF Len(emails) > 0
    THEN LET hits == {k \in 1..Len(emails) :
                         \E p \in 1..Len(priorityPrefixes) :
                             startsWith(toLowerCase(emails[k]), priorityPrefixes[p])}
         IN  IF hits = {} THEN emails[1]
             ELSE emails[CHOOSE k \in hits : \A j \in hits : k <= j]
    ELSE NULL

pickBestEmail(emails) ==
    IF Len(emails) > 0
    THEN LET matching == {p \in 1..Len(priorityPrefixes) :
                             Truthy(findPrefixed(emails, priorityPrefixes[p]))}
             first == CHOOSE p \in matching : \A q \in matching : p <= q
             found == IF matching = {} THEN NULL
                      ELSE findPrefixed(emails, priorityPrefixes[first])
         IN  IF ~Truthy(found) THEN emails[1] ELSE found
    ELSE NULL

\* mutant: the contact URL is preferred to the form action
extractContactInfo_ContactUrlFirst(orgName, contactUrl, page) ==
    IF page.threw
    THEN [orgName |-> orgName, contactUrl |-> contactUrl, email |-> NULL,
          formUrl |-> NULL, contactType |-> "none", error |-> page.message]
    ELSE [orgName |-> orgName, contactUrl |-> contactUrl,
          email |-> pickBestEmail(page.emails),
          formUrl |-> IF page.hasContactForm THEN contactUrl ELSE page.formAction,
          contactType |-> contactTypeOf(Len(page.emails) > 0, page.hasContactForm),
          error |-> NULL]

\* mutant: a form without an action URL gives no form URL
extractContactInfo_NoFallback(orgName, contactUrl, page) ==
    IF page.threw
    THEN [orgName |-> orgName, contactUrl |-> contactUrl, email |-> NULL,
          formUrl |-> NULL, contactType |-> "none", error |-> page.message]
    ELSE [orgName |-> orgName, contactUrl |-> contactUrl,
          email |-> pickBestEmail(page.emails),
          formUrl |-> page.formAction,
          contactType |-> contactTypeOf(Len(page.emails) > 0, page.hasContactForm),
          error |-> NULL]

extractContactInfo(orgName, contactUrl, page) ==
    IF page.threw
    THEN [orgName |-> orgName, contactUrl |-> contactUrl, email |-> NULL,
          formUrl |-> NULL, contactType |-> "none", error |-> page.message]
    ELSE LET hasEmail == Len(page.emails) > 0
             hasForm == page.hasContactForm
         IN  [orgName |-> orgName, contactUrl |-> contactUrl,
              email |-> pickBestEmail(page.emails),
              formUrl |-> OrElse(page.formAction,
                                 IF hasForm THEN contactUrl ELSE NULL),
              contactType |-> contactTypeOf(hasEmail, hasForm),
              error |-> NULL]

------------------------------------------------------------------------------
(* search.ts *)

contactKeywords ==
    << <<"c","o","n","t","a","c","t">>, <<"a","b","o","u","t">>,
       <<"h","e","l","p">>, <<"s","u","p","p","o","r","t">>,
       <<"r","e","a","c","h">>,
       <<"g","e","t","-","i","n","-","t","o","u","c","h">> >>

SchemeHttps == <<"h","t","t","p","s",":","/","/">>
SchemeHttp == <<"h","t","t","p",":","/","/">>
ErrInvalidUrl == <<"I","n","v","a","l","i","d"," ","U","R","L">>
ErrNoResults == <<"N","o"," ","r","e","s","u","l","t","s"," ","f","o","u","n","d">>
ApiErrorPrefix == <<"A","P","I"," ","e","r","r","o","r"," ">>

\* new URL(url) accepts: here, an http(s) URL with a host
urlScheme(url) ==
    IF startsWith(url, SchemeHttps) THEN SchemeHttps
    ELSE IF startsWith(url, SchemeHttp) THEN SchemeHttp
    ELSE <<>>

validUrl(url) ==
    /\ urlScheme(url) # <<>>
    /\ Len(url) > Len(urlScheme(url))
    /\ url[Len(urlScheme(url)) + 1] # "/"

\* new URL(url).origin: scheme and host, the path cut off
urlOrigin(url) ==
    LET from == Len(urlScheme(url)) + 1
        slashes == {k \in from..Len(url) : url[k] = "/"}
        cut == IF slashes = {} THEN Len(url) + 1
               ELSE CHOOSE k \in slashes : \A j \in slashes : k <= j
    IN  toLowerCase(SubSeq(url, 1, cut - 1))

isContactPage(result) ==
    \E k \in 1..Len(contactKeywords) :
        \/ includes(toLowerCase(result.url), contactKeywords[k])
        \/ includes(toLowerCase(result.title), contactKeywords[k])

searchFailure(orgName, message) ==
    [orgName |-> orgName, websiteUrl |-> NULL, contactUrl |-> NULL,
     contactTitle |-> NULL, error |-> message]

findContactPage(orgName, response) ==
    IF response.kind = "threw" THEN searchFailure(orgName, response.message)
    ELSE IF response.kind = "notok"
    THEN searchFailure(orgName,
             ApiErrorPrefix \o response.status \o <<":", " ">> \o response.text)
    ELSE LET results == response.results
         IN  IF Len(results) = 0 THEN searchFailure(orgName, ErrNoResults)
             ELSE IF ~validUrl(results[1].url)
             THEN searchFailure(orgName, ErrInvalidUrl)
             ELSE LET hits == {k \in 1..Len(results) : isContactPage(results[k])}
                      bestResult ==
                          IF hits = {} THEN results[1]
                          ELSE results[CHOOSE k \in hits : \A j \in hits : k <= j]
                  IN  [orgName |-> orgName,
                       websiteUrl |-> urlOrigin(results[1].url),
                       contactUrl |-> bestResult.url,
                       contactTitle |-> bestResult.title,
                       error |-> NULL]

------------------------------------------------------------------------------
(* db.ts: the store *)

\* SQL NULL in the enum-valued column contact_type
NoType == "<NULL>"
\* SQL NULL in the column last_attempt_at
NoTime == 0

EmptyTable == [n \in {} |-> 0]

\* INSERT OR IGNORE INTO organizations (name): the column defaults of initDb
newOrgRow(id, name) ==
    [id |-> id, name |-> name, website |-> NULL, contact_type |-> NoType,
     contact_value |-> NULL, status |-> "pending", error_message |-> NULL,
     attempts |-> 0, last_attempt_at |-> NoTime]

\* INTEGER PRIMARY KEY: one more than the largest id in the table
nextId(orgs) ==
    IF DOMAIN orgs = {} THEN 1
    ELSE 1 + (CHOOSE m \in {orgs[n].id : n \in DOMAIN orgs} :
                  \A n \in DOMAIN orgs : orgs[n].id <= m)

\* mutant: INSERT OR REPLACE
insertOrIgnore_Replace(orgs, name) ==
    [n \in DOMAIN orgs \cup {name} |->
        IF n = name THEN newOrgRow(nextId(orgs), name) ELSE orgs[n]]

insertOrIgnore(orgs, name) ==
    IF name \in DOMAIN orgs THEN orgs
    ELSE [n \in DOMAIN orgs \cup {name} |->
              IF n = name THEN newOrgRow(nextId(orgs), name) ELSE orgs[n]]

\* the table after importOrgs(names), and the count it returns
RECURSIVE importOrgs(_, _)
importOrgs(orgs, names) ==
    IF names = <<>> THEN [orgs |-> orgs, count |-> 0]
    ELSE LET inserted == insertOrIgnore(orgs, Head(names))
             changes == IF Head(names) \in DOMAIN orgs THEN 0 ELSE 1
             rest == importOrgs(inserted, Tail(names))
         IN  [orgs |-> rest.orgs, count |-> changes + rest.count]

\* mutant: the WHERE clause dropped
getOrgsByStatus_AnyStatus(orgs, status) ==
    LET hit(n) == n \in DOMAIN orgs
        names == SelectSeq(OrgNames, hit)
    IN  [k \in 1..Len(names) |-> orgs[names[k]]]

\* SELECT * FROM organizations WHERE status = ? ORDER BY name
getOrgsByStatus(orgs, status) ==
    LET hit(n) == n \in DOMAIN orgs /\ orgs[n].status = status
        names == SelectSeq(OrgNames, hit)
    IN  [k \in 1..Len(names) |-> orgs[names[k]]]

\* mutant: the counter is not incremented
updateOrgContact_NoCount(orgs, name, data, ts) ==
    [n \in DOMAIN orgs |->
        IF n = name
        THEN [orgs[n] EXCEPT
                 !.website = COALESCE(data.website, @),
                 !.contact_type = data.contact_type,
                 !.contact_value = data.contact_value,
                 !.status = data.status,
                 !.error_message = data.error_message,
                 !.last_attempt_at = ts]
        ELSE orgs[n]]

\* mutant: an absent contact value leaves the stored one
updateOrgContact_KeepsValue(orgs, name, data, ts) ==
    [n \in DOMAIN orgs |->
        IF n = name
        THEN [orgs[n] EXCEPT
                 !.website = COALESCE(data.website, @),
                 !.contact_type = data.contact_type,
                 !.contact_value = COALESCE(data.contact_value, @),
                 !.status = data.status,
                 !.error_message = data.error_message,
                 !.attempts = @ + 1,
                 !.last_attempt_at = ts]
        ELSE orgs[n]]

\* mutant: an absent error message leaves the stored one
updateOrgContact_KeepsError(orgs, name, data, ts) ==
    [n \in DOMAIN orgs |->
        IF n = name
        THEN [orgs[n] EXCEPT
                 !.website = COALESCE(data.website, @),
                 !.contact_type = data.contact_type,
                 !.contact_value = data.contact_value,
                 !.status = data.status,
                 !.error_message = COALESCE(data.error_message, @),
                 !.attempts = @ + 1,
                 !.last_attempt_at = ts]
        ELSE orgs[n]]

\* data: website, contact_type, contact_value, status, error_message, an
\* absent (undefined) field being NULL; ts is CURRENT_TIMESTAMP
updateOrgContact(orgs, name, data, ts) ==
    [n \in DOMAIN orgs |->
        IF n = name
        THEN [orgs[n] EXCEPT
                 !.website = COALESCE(data.website, @),
                 !.contact_type = data.contact_type,
                 !.contact_value = data.contact_value,
                 !.status = data.status,
                 !.error_message = data.error_message,
                 !.attempts = @ + 1,
                 !.last_attempt_at = ts]
        ELSE orgs[n]]

\* mutant: the reset keeps the error message
resetOrg_KeepsError(orgs, name) ==
    [n \in DOMAIN orgs |->
        IF n = name THEN [orgs[n] EXCEPT !.status = "pending"] ELSE orgs[n]]

\* mutant: the reset also clears the counter
resetOrg_ClearsAttempts(orgs, name) ==
    [n \in DOMAIN orgs |->
        IF n = name
        THEN [orgs[n] EXCEPT !.status = "pending", !.error_message = NULL,
                             !.attempts = 0]
        ELSE orgs[n]]

resetOrg(orgs, name) ==
    [n \in DOMAIN orgs |->
        IF n = name
        THEN [orgs[n] EXCEPT !.status = "pending", !.error_message = NULL]
        ELSE orgs[n]]

\* mutant: the reset of all also forgets the channel found
resetAllOrgs_ClearsContact(orgs) ==
    [n \in DOMAIN orgs |->
        [orgs[n] EXCEPT !.status = "pending", !.error_message = NULL,
                        !.contact_type = NoType, !.contact_value = NULL]]

resetAllOrgs(orgs) ==
    [n \in DOMAIN orgs |->
        [orgs[n] EXCEPT !.status = "pending", !.error_message = NULL]]

\* mutant: one row per organization and type, rewritten by the next Attempt
logAttempt_Upsert(orgs, log, orgName, attemptType, success, details) ==
    IF orgName \notin DOMAIN orgs THEN log
    ELSE LET same == {j \in 1..Len(log) : /\ log[j].org_id = orgs[orgName].id
                                           /\ log[j].attempt_type = attemptType}
             row(j) == [id |-> j, org_id |-> orgs[orgName].id,
                        attempt_type |-> attemptType,
                        success |-> IF success THEN 1 ELSE 0,
                        details |-> details, screenshot_path |-> NULL]
         IN  IF same = {} THEN Append(log, row(Len(log) + 1))
             ELSE [j \in 1..Len(log) |-> IF j \in same THEN row(j) ELSE log[j]]

\* mutant: the Attempt of an unknown organization is logged without an owner
logAttempt_Orphan(orgs, log, orgName, attemptType, success, details) ==
    Append(log, [id |-> Len(log) + 1,
                 org_id |-> IF orgName \in DOMAIN orgs THEN orgs[orgName].id ELSE 0,
                 attempt_type |-> attemptType,
                 success |-> IF success THEN 1 ELSE 0,
                 details |-> details,
                 screenshot_path |-> NULL])

\* the table attempts after logAttempt(orgName, attemptType, success, details)
logAttempt(orgs, log, orgName, attemptType, success, details) ==
    IF orgName \notin DOMAIN orgs THEN log
    ELSE LET org == orgs[orgName]
         IN  Append(log, [id |-> Len(log) + 1,
                          org_id |-> org.id,
                          attempt_type |-> attemptType,
                          success |-> IF success THEN 1 ELSE 0,
                          details |-> details,
                          screenshot_path |-> NULL])

\* SUM(CASE WHEN ... THEN 1 ELSE 0 END) over the rows: NULL over no row
RECURSIVE sumSeq(_)
sumSeq(q) == IF q = <<>> THEN 0 ELSE Head(q) + sumSeq(Tail(q))

sqlSum(ones) == [null |-> ones = <<>>, value |-> sumSeq(ones)]

\* COUNT(*)
sqlCount(rows) == [null |-> FALSE, value |-> Len(rows)]

\* result.x ?? 0
orZero(r) == IF r.null THEN 0 ELSE r.value

\* mutant: withEmail counts the rows of type email only
getStats_EmailOnly(orgs) ==
    LET rows == [k \in 1..Len(SelectSeq(OrgNames, LAMBDA n : n \in DOMAIN orgs)) |->
                    orgs[SelectSeq(OrgNames, LAMBDA n : n \in DOMAIN orgs)[k]]]
        hasStatus(st) == [k \in 1..Len(rows) |-> IF rows[k].status = st THEN 1 ELSE 0]
        hasType(ts) == [k \in 1..Len(rows) |-> IF rows[k].contact_type \in ts THEN 1 ELSE 0]
    IN  [total |-> orZero(sqlCount(rows)),
         pending |-> orZero(sqlSum(hasStatus("pending"))),
         success |-> orZero(sqlSum(hasStatus("success"))),
         failed |-> orZero(sqlSum(hasStatus("failed"))),
         manual |-> orZero(sqlSum(hasStatus("manual"))),
         withEmail |-> orZero(sqlSum(hasType({"email"}))),
         withForm |-> orZero(sqlSum(hasType({"form", "both"})))]

\* getStats(): a NULL contact_type is IN no list
getStats(orgs) ==
    LET rows == [k \in 1..Len(SelectSeq(OrgNames, LAMBDA n : n \in DOMAIN orgs)) |->
                    orgs[SelectSeq(OrgNames, LAMBDA n : n \in DOMAIN orgs)[k]]]
        hasStatus(st) == [k \in 1..Len(rows) |-> IF rows[k].status = st THEN 1 ELSE 0]
        hasType(ts) == [k \in 1..Len(rows) |-> IF rows[k].contact_type \in ts THEN 1 ELSE 0]
    IN  [total |-> orZero(sqlCount(rows)),
         pending |-> orZero(sqlSum(hasStatus("pending"))),
         success |-> orZero(sqlSum(hasStatus("success"))),
         failed |-> orZero(sqlSum(hasStatus("failed"))),
         manual |-> orZero(sqlSum(hasStatus("manual"))),
         withEmail |-> orZero(sqlSum(hasType({"email", "both"}))),
         withForm |-> orZero(sqlSum(hasType({"form", "both"})))]

------------------------------------------------------------------------------
(* index.ts: the commands *)

NoResult == [none |-> TRUE]

\* no send-emails command has run
sendIdle ==
    /\ spc = "idle"
    /\ orgsToEmail = <<>>
    /\ sidx = 0
    /\ transporter = FALSE
    /\ outbox = <<>>
    /\ sent = 0
    /\ failed = 0
    /\ logFiles = EmptyTable
    /\ currentLogFile = NoTime
    /\ verified = NoResult

\* no BraveSearch call has been made
limiterIdle ==
    /\ clockMs = 0
    /\ lastRequestTime = 0
    /\ callers = EmptyTable
    /\ stamps = <<>>

\* neither assessConfidence nor extractContactInfo is being called on its own
functionsIdle ==
    /\ rankInput = NoResult
    /\ confidence = NoType
    /\ selInput = NoResult
    /\ selected = NoResult

Init ==
    /\ organizations = EmptyTable
    /\ attempts = <<>>
    /\ now = 0
    /\ pc = "idle"
    /\ pendingOrgs = <<>>
    /\ idx = 0
    /\ searchResult = NoResult
    /\ extracted = NoResult
    /\ contactInfo = NoResult
    /\ orgs0 = EmptyTable
    /\ attempts0 = <<>>
    /\ sendIdle
    /\ limiterIdle
    /\ functionsIdle

\* the organization the for loop of batch is at
org == pendingOrgs[idx]

\* command import
Import ==
    /\ pc = "idle"
    /\ spc = "idle"
    /\ \E names \in SeqsUpTo(Names, MaxImport) :
           organizations' = importOrgs(organizations, names).orgs
    /\ UNCHANGED <<attempts, now, pc, batchLocals, orgs0, attempts0,
                   otherVars>>

\* resetOrg(name), for a name in the table or not
ResetOrg ==
    /\ pc = "idle"
    /\ spc = "idle"
    /\ \E name \in Names : organizations' = resetOrg(organizations, name)
    /\ UNCHANGED <<attempts, now, pc, batchLocals, orgs0, attempts0,
                   otherVars>>

ResetAllOrgs ==
    /\ pc = "idle"
    /\ spc = "idle"
    /\ organizations' = resetAllOrgs(organizations)
    /\ UNCHANGED <<attempts, now, pc, batchLocals, orgs0, attempts0,
                   otherVars>>

\* command batch, up to the first iteration of its loop
BatchStart ==
    /\ pc = "idle"
    /\ spc = "idle"
    /\ LET pending == getOrgsByStatus(organizations, "pending")
       IN  /\ now + Len(pending) <= MaxClock
           /\ IF Len(pending) = 0
              THEN UNCHANGED <<pc, batchLocals, orgs0, attempts0>>
              ELSE /\ pendingOrgs' = pending
                   /\ idx' = 1
                   /\ pc' = "search"
                   /\ orgs0' = organizations
                   /\ attempts0' = attempts
                   /\ UNCHANGED <<searchResult, extracted, contactInfo>>
    /\ UNCHANGED <<organizations, attempts, now, otherVars>>

\* await search.findContactPage(org.name), fetch answering with one of responses
SearchCallFrom(responses) ==
    /\ pc = "search"
    /\ now < MaxClock
    /\ now' = now + 1
    /\ \E response \in responses :
           /\ searchResult' = findContactPage(org.name, response)
           /\ pc' = IF ~Truthy(searchResult'.contactUrl)
                    THEN "failA_update" ELSE "okA_log"
    /\ UNCHANGED <<organizations, attempts, pendingOrgs, idx, extracted,
                   contactInfo, orgs0, attempts0, otherVars>>

SearchCall == SearchCallFrom(SearchResponses)

SearchCallMoved == SearchCallFrom(MovedResponses)

\* mutant: the loop takes the same organization again
Continue_Retry ==
    /\ idx' = idx
    /\ pc' = "search"
    /\ searchResult' = NoResult
    /\ extracted' = NoResult
    /\ contactInfo' = NoResult
    /\ UNCHANGED pendingOrgs

\* the next iteration of the for loop, or its end
Continue ==
    /\ idx' = idx + 1
    /\ pc' = IF idx + 1 > Len(pendingOrgs) THEN "finally" ELSE "search"
    /\ searchResult' = NoResult
    /\ extracted' = NoResult
    /\ contactInfo' = NoResult
    /\ UNCHANGED pendingOrgs

\* mutant: the error of stage A is not stored
FailA_Update_NoError ==
    /\ pc = "failA_update"
    /\ organizations' = updateOrgContact(organizations, org.name,
           [website |-> NULL, contact_type |-> "none", contact_value |-> NULL,
            status |-> "failed", error_message |-> NULL], now)
    /\ pc' = "failA_log"
    /\ UNCHANGED <<attempts, now, batchLocals, orgs0, attempts0, otherVars>>

FailA_Update ==
    /\ pc = "failA_update"
    /\ organizations' = updateOrgContact(organizations, org.name,
           [website |-> NULL, contact_type |-> "none", contact_value |-> NULL,
            status |-> "failed", error_message |-> searchResult.error], now)
    /\ pc' = "failA_log"
    /\ UNCHANGED <<attempts, now, batchLocals, orgs0, attempts0, otherVars>>

\* mutant: a failure of stage A leaves the loop
FailA_Log_Abort ==
    /\ pc = "failA_log"
    /\ attempts' = logAttempt(organizations, attempts, org.name, "search", FALSE,
                              [error |-> searchResult.error])
    /\ idx' = idx + 1
    /\ pc' = "finally"
    /\ searchResult' = NoResult
    /\ extracted' = NoResult
    /\ contactInfo' = NoResult
    /\ UNCHANGED <<organizations, now, pendingOrgs, orgs0, attempts0,
                   otherVars>>

FailA_Log ==
    /\ pc = "failA_log"
    /\ attempts' = logAttempt(organizations, attempts, org.name, "search", FALSE,
                              [error |-> searchResult.error])
    /\ Continue
    /\ UNCHANGED <<organizations, now, orgs0, attempts0, otherVars>>

\* mutant: the search that succeeded is not logged
OkA_Log_Silent ==
    /\ pc = "okA_log"
    /\ pc' = "extract"
    /\ UNCHANGED <<organizations, attempts, now, batchLocals, orgs0, attempts0,
                   otherVars>>

OkA_Log ==
    /\ pc = "okA_log"
    /\ attempts' = logAttempt(organizations, attempts, org.name, "search", TRUE,
                              [url |-> searchResult.contactUrl])
    /\ pc' = "extract"
    /\ UNCHANGED <<organizations, now, batchLocals, orgs0, attempts0,
                   otherVars>>

\* await extractContactInfo(stagehand, org.name, searchResult.contactUrl)
ExtractCall ==
    /\ pc = "extract"
    /\ \E page \in PageOutcomes :
           /\ extracted' = page
           /\ contactInfo' = extractContactInfo(org.name, searchResult.contactUrl, page)
           /\ pc' = IF Truthy(contactInfo'.error)
                    THEN "errB_update" ELSE "okB_update"
    /\ UNCHANGED <<organizations, attempts, now, pendingOrgs, idx, searchResult,
                   orgs0, attempts0, otherVars>>

ErrB_Update ==
    /\ pc = "errB_update"
    /\ organizations' = updateOrgContact(organizations, org.name,
           [website |-> COALESCE(searchResult.websiteUrl, NULL),
            contact_type |-> "none", contact_value |-> NULL,
            status |-> "failed", error_message |-> contactInfo.error], now)
    /\ pc' = "errB_log"
    /\ UNCHANGED <<attempts, now, batchLocals, orgs0, attempts0, otherVars>>

ErrB_Log ==
    /\ pc = "errB_log"
    /\ attempts' = logAttempt(organizations, attempts, org.name, "contact_find",
                              FALSE, [error |-> contactInfo.error])
    /\ Continue
    /\ UNCHANGED <<organizations, now, orgs0, attempts0, otherVars>>

contactValueOf(info) == OrElse(info.email, info.formUrl)

\* mutant: no channel counts as a failure
statusOf_NoneFails(info) == IF info.contactType = "none" THEN "failed" ELSE "success"

statusOf(info) == IF info.contactType = "none" THEN "manual" ELSE "success"

\* mutant: the website found by stage A is not stored
OkB_Update_NoWebsite ==
    /\ pc = "okB_update"
    /\ organizations' = updateOrgContact(organizations, org.name,
           [website |-> NULL,
            contact_type |-> contactInfo.contactType,
            contact_value |-> contactValueOf(contactInfo),
            status |-> statusOf(contactInfo), error_message |-> NULL], now)
    /\ pc' = "okB_log"
    /\ UNCHANGED <<attempts, now, batchLocals, orgs0, attempts0, otherVars>>

OkB_Update ==
    /\ pc = "okB_update"
    /\ organizations' = updateOrgContact(organizations, org.name,
           [website |-> COALESCE(searchResult.websiteUrl, NULL),
            contact_type |-> contactInfo.contactType,
            contact_value |-> contactValueOf(contactInfo),
            status |-> statusOf(contactInfo), error_message |-> NULL], now)
    /\ pc' = "okB_log"
    /\ UNCHANGED <<attempts, now, batchLocals, orgs0, attempts0, otherVars>>

\* mutant: a page read without error is logged as a success
OkB_Log_PageRead ==
    /\ pc = "okB_log"
    /\ attempts' = logAttempt(organizations, attempts, org.name, "contact_find",
                              TRUE,
                              [type |-> contactInfo.contactType,
                               email |-> contactInfo.email,
                               formUrl |-> contactInfo.formUrl])
    /\ Continue
    /\ UNCHANGED <<organizations, now, orgs0, attempts0, otherVars>>

OkB_Log ==
    /\ pc = "okB_log"
    /\ attempts' = logAttempt(organizations, attempts, org.name, "contact_find",
                              statusOf(contactInfo) = "success",
                              [type |-> contactInfo.contactType,
                               email |-> contactInfo.email,
                               formUrl |-> contactInfo.formUrl])
    /\ Continue
    /\ UNCHANGED <<organizations, now, orgs0, attempts0, otherVars>>

\* the finally block, getStats and closeDb: the pass is over
BatchFinish ==
    /\ pc = "finally"
    /\ pc' = "idle"
    /\ pendingOrgs' = <<>>
    /\ idx' = 0
    /\ orgs0' = EmptyTable
    /\ attempts0' = <<>>
    /\ UNCHANGED <<organizations, attempts, now, searchResult, extracted,
                   contactInfo, otherVars>>

\* the process is stopped in the middle of a pass
Interrupt ==
    /\ pc \notin {"idle", "finally"}
    /\ pc' = "idle"
    /\ pendingOrgs' = <<>>
    /\ idx' = 0
    /\ searchResult' = NoResult
    /\ extracted' = NoResult
    /\ contactInfo' = NoResult
    /\ orgs0' = EmptyTable
    /\ attempts0' = <<>>
    /\ UNCHANGED <<organizations, attempts, now, otherVars>>

PassStep ==
    \/ SearchCall
    \/ FailA_Update
    \/ FailA_Log
    \/ OkA_Log
    \/ ExtractCall
    \/ ErrB_Update
    \/ ErrB_Log
    \/ OkB_Update
    \/ OkB_Log
    \/ BatchFinish

Next ==
    \/ Import
    \/ ResetOrg
    \/ ResetAllOrgs
    \/ BatchStart
    \/ PassStep

Spec == Init /\ [][Next]_vars

\* a running batch process takes its next step: every await of the loop is
\* answered by a result or by an error
FairSpec == Spec /\ WF_vars(PassStep)

\* the same commands, the batch process being stopped at any point of a pass
NextInterruptible ==
    \/ Next
    \/ Interrupt

SpecInterruptible == Init /\ [][NextInterruptible]_vars

\* the same commands, the search engine ranking another origin first
NextMovedSite ==
    \/ Next
    \/ SearchCallMoved

SpecMovedSite == Init /\ [][NextMovedSite]_vars

------------------------------------------------------------------------------
(* The store used through its exported functions alone *)

WebsiteOrigin == urlOrigin(HomeUrl)

\* arguments of updateOrgContact: an absent website or error_message is NULL
OutcomeData ==
    { [website |-> NULL, contact_type |-> "none", contact_value |-> NULL,
       status |-> "failed", error_message |-> ErrNoResults],
      [website |-> WebsiteOrigin, contact_type |-> "none", contact_value |-> NULL,
       status |-> "manual", error_message |-> NULL],
      [website |-> WebsiteOrigin, contact_type |-> "email",
       contact_value |-> InfoEmail, status |-> "success", error_message |-> NULL],
      [website |-> NULL, contact_type |-> "form",
       contact_value |-> ContactUrl, status |-> "success", error_message |-> NULL],
      [website |-> WebsiteOrigin, contact_type |-> "both",
       contact_value |-> InfoEmail, status |-> "success", error_message |-> NULL] }

\* updateOrgContact(name, data), for a name in the table or not
RecordOutcome ==
    /\ pc = "idle"
    /\ spc = "idle"
    /\ now < MaxClock
    /\ now' = now + 1
    /\ \E name \in Names, data \in OutcomeData :
           organizations' = updateOrgContact(organizations, name, data, now')
    /\ UNCHANGED <<attempts, pc, batchLocals, orgs0, attempts0, otherVars>>

\* the details logAttempt is given by send-emails
mailDetails == [messageId |-> <<"m">>]

\* logAttempt(orgName, attemptType, success, details), for a name in the table
\* or not
AppendAttempt ==
    /\ pc = "idle"
    /\ spc = "idle"
    /\ Len(attempts) < MaxLog
    /\ \E orgName \in Names, success \in BOOLEAN :
           attempts' = logAttempt(organizations, attempts, orgName, "email", success,
                                  mailDetails)
    /\ UNCHANGED <<organizations, now, pc, batchLocals, orgs0, attempts0,
                   otherVars>>

StoreNext ==
    \/ Import
    \/ RecordOutcome
    \/ ResetOrg
    \/ ResetAllOrgs
    \/ AppendAttempt

StoreSpec == Init /\ [][StoreNext]_vars

------------------------------------------------------------------------------
(* email-sender.ts, logger.ts and the command send-emails of index.ts *)

\* messages one behaviour hands to transporter.sendMail at most
MaxOutbox == 2
\* send-emails commands that get as far as initLogger, per behaviour
MaxRuns == 2

TestAddress == <<"m","e","@","m","e",".","m","e">>
TestOrgName == "TEST"
MessageId == <<"<","1","@","m","e",".","m","e",">">>
ErrSmtp == <<"C","o","n","n","e","c","t","i","o","n"," ","c","l","o","s","e","d">>
ErrNoRecipients == <<"N","o"," ","r","e","c","i","p","i","e","n","t","s"," ",
                     "d","e","f","i","n","e","d">>
ErrNoTransport == <<"E","m","a","i","l"," ","t","r","a","n","s","p","o","r","t"," ",
                    "n","o","t"," ","i","n","i","t","i","a","l","i","z","e","d">>

\* SELECT * FROM organizations ORDER BY name
getAllOrgs(orgs) ==
    LET hit(n) == n \in DOMAIN orgs
        names == SelectSeq(OrgNames, hit)
    IN  [k \in 1..Len(names) |-> orgs[names[k]]]

\* verifyTransport(): accepted is whether transporter.verify() resolves
verifyTransport(exists, accepted) ==
    IF ~exists THEN [threw |-> TRUE, value |-> FALSE]
    ELSE [threw |-> FALSE, value |-> accepted]

\* what transporter.sendMail does with a message: resolve with a messageId or
\* reject; a message without a recipient is rejected before it is sent
sendMail(toEmail, accepted) ==
    IF ~Truthy(toEmail) THEN [ok |-> FALSE, messageId |-> NULL, message |-> ErrNoRecipients]
    ELSE IF accepted THEN [ok |-> TRUE, messageId |-> MessageId, message |-> NULL]
    ELSE [ok |-> FALSE, messageId |-> NULL, message |-> ErrSmtp]

\* sendOptOutEmail and sendTestEmail: the SendResult, and whether sendMail was
\* called
sendEmail(exists, orgName, toEmail, accepted) ==
    IF ~exists
    THEN [orgName |-> orgName, toEmail |-> toEmail, success |-> FALSE,
          messageId |-> NULL, error |-> ErrNoTransport, called |-> FALSE]
    ELSE LET info == sendMail(toEmail, accepted)
         IN  [orgName |-> orgName, toEmail |-> toEmail, success |-> info.ok,
              messageId |-> info.messageId, error |-> info.message,
              called |-> TRUE]

\* mutant: the file is written anew with each entry
logEntry_Truncate(files, file, entry) ==
    [f \in DOMAIN files \cup {file} |-> IF f = file THEN <<entry>> ELSE files[f]]

\* log(message): appendFileSync(currentLogFile, line)
logEntry(files, file, entry) ==
    [f \in DOMAIN files \cup {file} |->
        IF f = file
        THEN Append(IF file \in DOMAIN files THEN files[file] ELSE <<>>, entry)
        ELSE files[f]]

\* the entries of every log file, file after file
RECURSIVE allEntries(_, _)
allEntries(files, names) ==
    IF names = {} THEN <<>>
    ELSE LET f == CHOOSE x \in names : \A y \in names : x <= y
         IN  files[f] \o allEntries(files, names \ {f})

\* the send-emails commands that called initLogger
runsLogged ==
    LET isHeader(e) == e.kind = "header"
    IN  Len(SelectSeq(allEntries(logFiles, DOMAIN logFiles), isHeader))

\* the command ends: closeTransport(), closeDb(), its locals gone
sendEnds ==
    /\ spc' = "idle"
    /\ transporter' = FALSE
    /\ orgsToEmail' = <<>>
    /\ sidx' = 0
    /\ sent' = 0
    /\ failed' = 0
    /\ currentLogFile' = NoTime
    /\ verified' = NoResult

\* options.org when --org is not given
NoOption == "<NULL>"

\* send-emails [--org name] [--dry-run], up to the call of verifyTransport
SendStart ==
    /\ pc = "idle"
    /\ spc = "idle"
    /\ runsLogged < MaxRuns
    /\ \E org_ \in Names \cup {NoOption}, dryRun \in BOOLEAN :
           LET hasEmail(o) == o.contact_type = "email" \/ o.contact_type = "both"
               named(o) == o.name = org_
               withEmail == SelectSeq(getAllOrgs(organizations), hasEmail)
               targets == IF org_ # NoOption THEN SelectSeq(withEmail, named)
                          ELSE withEmail
           IN  /\ Len(outbox) + Len(targets) <= MaxOutbox
               /\ IF Len(targets) = 0 \/ dryRun
                  THEN UNCHANGED sendVars
                  ELSE /\ currentLogFile' = now
                       /\ logFiles' = logEntry(logFiles, now,
                              [kind |-> "header", count |-> Len(targets)])
                       /\ transporter' = TRUE
                       /\ orgsToEmail' = targets
                       /\ sidx' = 1
                       /\ sent' = 0
                       /\ failed' = 0
                       /\ spc' = "verify"
                       /\ UNCHANGED <<outbox, verified>>
    /\ UNCHANGED <<pipelineVars, limiterVars, functionVars>>

\* mutant: the run goes on whatever verifyTransport gave
proceeds_Always(answer) == TRUE

\* if (!verified) { ... process.exit(1) }, and the catch around the await
proceeds(answer) == ~answer.threw /\ answer.value

\* await verifyTransport() of the send run, and the branch on what it gave
SendVerify ==
    /\ spc = "verify"
    /\ \E accepted \in BOOLEAN :
           LET answer == verifyTransport(transporter, accepted)
           IN  IF ~proceeds(answer)
               THEN /\ logFiles' = logEntry(logFiles, currentLogFile, [kind |-> "error"])
                    /\ sendEnds
               ELSE /\ logFiles' = logEntry(logFiles, currentLogFile, [kind |-> "verified"])
                    /\ spc' = "send"
                    /\ verified' = answer
                    /\ UNCHANGED <<orgsToEmail, sidx, transporter, sent, failed,
                                   currentLogFile>>
    /\ UNCHANGED <<outbox, pipelineVars, limiterVars, functionVars>>

\* mutant: the loop is left at the first send that fails
SendOne_StopsOnFailure ==
    /\ spc = "send"
    /\ \E accepted \in BOOLEAN :
           LET o == orgsToEmail[sidx]
               result == sendEmail(transporter, o.name, o.contact_value, accepted)
           IN  /\ outbox' = IF result.called
                            THEN Append(outbox, [orgName |-> o.name,
                                                 toEmail |-> o.contact_value,
                                                 success |-> result.success])
                            ELSE outbox
               /\ logFiles' = logEntry(logFiles, currentLogFile,
                      [kind |-> "email", orgName |-> o.name,
                       toEmail |-> o.contact_value, success |-> result.success,
                       messageId |-> result.messageId, error |-> result.error])
               /\ sent' = IF result.success THEN sent + 1 ELSE sent
               /\ failed' = IF result.success THEN failed ELSE failed + 1
               /\ attempts' = IF result.success
                               THEN logAttempt(organizations, attempts, o.name, "email",
                                               TRUE, [messageId |-> result.messageId])
                               ELSE logAttempt(organizations, attempts, o.name, "email",
                                               FALSE, [error |-> result.error])
               /\ spc' = IF sidx + 1 > Len(orgsToEmail) \/ ~result.success
                         THEN "summary" ELSE "send"
    /\ now' = now + 1
    /\ sidx' = sidx + 1
    /\ UNCHANGED <<organizations, pc, batchLocals, orgs0, attempts0, orgsToEmail,
                   transporter, currentLogFile, verified, limiterVars, functionVars>>

\* one iteration of the send loop: sendOptOutEmail, logEmail, logAttempt and
\* the wait of two seconds
SendOne ==
    /\ spc = "send"
    /\ \E accepted \in BOOLEAN :
           LET o == orgsToEmail[sidx]
               result == sendEmail(transporter, o.name, o.contact_value, accepted)
           IN  /\ outbox' = IF result.called
                            THEN Append(outbox, [orgName |-> o.name,
                                                 toEmail |-> o.contact_value,
                                                 success |-> result.success])
                            ELSE outbox
               /\ logFiles' = logEntry(logFiles, currentLogFile,
                      [kind |-> "email", orgName |-> o.name,
                       toEmail |-> o.contact_value, success |-> result.success,
                       messageId |-> result.messageId, error |-> result.error])
               /\ sent' = IF result.success THEN sent + 1 ELSE sent
               /\ failed' = IF result.success THEN failed ELSE failed + 1
               /\ attempts' = IF result.success
                               THEN logAttempt(organizations, attempts, o.name, "email",
                                               TRUE, [messageId |-> result.messageId])
                               ELSE logAttempt(organizations, attempts, o.name, "email",
                                               FALSE, [error |-> result.error])
    /\ now' = now + 1
    /\ sidx' = sidx + 1
    /\ spc' = IF sidx + 1 > Len(orgsToEmail) THEN "summary" ELSE "send"
    /\ UNCHANGED <<organizations, pc, batchLocals, orgs0, attempts0, orgsToEmail,
                   transporter, currentLogFile, verified, limiterVars, functionVars>>

\* logSummary(sent, failed), closeTransport(), closeDb()
SendFinish ==
    /\ spc = "summary"
    /\ logFiles' = logEntry(logFiles, currentLogFile,
           [kind |-> "summary", sent |-> sent, failed |-> failed,
            total |-> sent + failed])
    /\ sendEnds
    /\ UNCHANGED <<outbox, pipelineVars, limiterVars, functionVars>>

\* send-emails --test address, up to the call of verifyTransport
TestStart ==
    /\ pc = "idle"
    /\ spc = "idle"
    /\ Len(outbox) < MaxOutbox
    /\ transporter' = TRUE
    /\ spc' = "test_verify"
    /\ UNCHANGED <<orgsToEmail, sidx, outbox, sent, failed, logFiles,
                   currentLogFile, verified, pipelineVars, limiterVars, functionVars>>

\* await verifyTransport() of the test mode, and the branch on what it gave
TestVerify ==
    /\ spc = "test_verify"
    /\ \E accepted \in BOOLEAN :
           LET answer == verifyTransport(transporter, accepted)
           IN  IF ~proceeds(answer)
               THEN sendEnds
               ELSE /\ spc' = "test_send"
                    /\ verified' = answer
                    /\ UNCHANGED <<orgsToEmail, sidx, transporter, sent, failed,
                                   currentLogFile>>
    /\ UNCHANGED <<outbox, logFiles, pipelineVars, limiterVars, functionVars>>

\* await sendTestEmail(options.test, identity), then closeTransport()
TestSend ==
    /\ spc = "test_send"
    /\ \E accepted \in BOOLEAN :
           LET result == sendEmail(transporter, TestOrgName, TestAddress, accepted)
           IN  outbox' = IF result.called
                         THEN Append(outbox, [orgName |-> TestOrgName,
                                              toEmail |-> TestAddress,
                                              success |-> result.success])
                         ELSE outbox
    /\ sendEnds
    /\ UNCHANGED <<logFiles, pipelineVars, limiterVars, functionVars>>

SendStep ==
    \/ SendVerify
    \/ SendOne
    \/ SendFinish
    \/ TestVerify
    \/ TestSend

\* the store functions and the command send-emails
MailNext ==
    \/ Import
    \/ RecordOutcome
    \/ ResetOrg
    \/ ResetAllOrgs
    \/ SendStart
    \/ TestStart
    \/ SendStep

MailSpec == Init /\ [][MailNext]_vars

\* import, the resets, batch and send-emails to the organizations
PipelineMailNext ==
    \/ Next
    \/ SendStart
    \/ SendVerify
    \/ SendOne
    \/ SendFinish

PipelineMailSpec == Init /\ [][PipelineMailNext]_vars

\* the table after importOrgs of the names in present and, at second k, the
\* updateOrgContact of the k-th of them that outcome gives data for
RECURSIVE recorded(_, _, _, _)
recorded(orgs, names, outcome, ts) ==
    IF names = <<>> THEN [orgs |-> orgs, now |-> ts]
    ELSE IF Head(names) \in DOMAIN orgs /\ outcome[Head(names)] # NoResult
    THEN recorded(updateOrgContact(orgs, Head(names), outcome[Head(names)], ts + 1),
                  Tail(names), outcome, ts + 1)
    ELSE recorded(orgs, Tail(names), outcome, ts)

\* send-emails finds a store that import and passes have filled
SendRunInit ==
    /\ \E present \in SUBSET Names, outcome \in [Names -> OutcomeData \cup {NoResult}] :
           LET isPresent(n) == n \in present
               imported == importOrgs(EmptyTable, SelectSeq(OrgNames, isPresent)).orgs
               store == recorded(imported, OrgNames, outcome, 0)
           IN  /\ organizations = store.orgs
               /\ now = store.now
    /\ attempts = <<>>
    /\ pc = "idle"
    /\ pendingOrgs = <<>>
    /\ idx = 0
    /\ searchResult = NoResult
    /\ extracted = NoResult
    /\ contactInfo = NoResult
    /\ orgs0 = EmptyTable
    /\ attempts0 = <<>>
    /\ sendIdle
    /\ limiterIdle
    /\ functionsIdle

\* the command send-emails alone, in both of its modes
SendRunNext ==
    \/ SendStart
    \/ TestStart
    \/ SendStep

SendRunSpec == SendRunInit /\ [][SendRunNext]_vars

------------------------------------------------------------------------------
(* extractContactInfo called on its own, on any page *)

\* length of the email list of a page given to the selector
MaxCandidates == 2

BobEmail == <<"b","o","b","@","o","r","g",".","o","r","g">>
ContactEmail == <<"c","o","n","t","a","c","t","@","o","r","g",".","o","r","g">>

CandidatePool == {<<>>, JaneEmail, BobEmail, InfoEmail, ContactEmail}

\* contact URLs and pages matching ContactSchema
SelectorInputs ==
    [contactUrl : {ContactUrl, HomeUrl},
     page : [threw : {FALSE}, message : {NULL},
             emails : SeqsUpTo(CandidatePool, MaxCandidates),
             hasContactForm : BOOLEAN,
             formAction : {NULL, <<>>, FormActionUrl}]]

SelectorInit ==
    /\ organizations = EmptyTable
    /\ attempts = <<>>
    /\ now = 0
    /\ pc = "idle"
    /\ pendingOrgs = <<>>
    /\ idx = 0
    /\ searchResult = NoResult
    /\ extracted = NoResult
    /\ contactInfo = NoResult
    /\ orgs0 = EmptyTable
    /\ attempts0 = <<>>
    /\ sendIdle
    /\ limiterIdle
    /\ rankInput = NoResult
    /\ confidence = NoType
    /\ selInput \in SelectorInputs
    /\ selected = NoResult

\* await extractContactInfo(stagehand, orgName, contactUrl)
Select ==
    /\ selected = NoResult
    /\ selected' = extractContactInfo(OrgNames[1], selInput.contactUrl, selInput.page)
    /\ UNCHANGED <<pipelineVars, sendVars, limiterVars, rankInput, confidence,
                   selInput>>

SelectorSpec == SelectorInit /\ [][Select]_vars

------------------------------------------------------------------------------
(* search.ts: assessConfidence *)

\* characters matched by \s in the names drawn below
isSpace(c) == c \in {" ", "\t", "\n"}

\* String.prototype.split(/\s+/): the pieces between the runs of whitespace,
\* with an empty piece before a leading run and after a trailing one
RECURSIVE splitFrom(_, _, _, _)
splitFrom(s, k, cur, inRun) ==
    IF k > Len(s) THEN <<cur>>
    ELSE IF isSpace(s[k])
         THEN IF inRun THEN splitFrom(s, k + 1, cur, TRUE)
              ELSE <<cur>> \o splitFrom(s, k + 1, <<>>, TRUE)
         ELSE splitFrom(s, k + 1, Append(cur, s[k]), FALSE)

split(s) == splitFrom(s, 1, <<>>, FALSE)

\* mutant: words of two characters count as well
longEnough_Two(w) == Len(w) >= 2

\* (w) => w.length > 2
longEnough(w) == Len(w) > 2

\* matchingWords.length / nameWords.length: 0 / 0 is NaN
divide(num, den) == [nan |-> den = 0, num |-> num, den |-> den]

\* mutant: NaN compares as greater than anything
atLeast_NaNPasses(ratio, tenths) ==
    ratio.nan \/ 10 * ratio.num >= tenths * ratio.den

\* matchRatio >= tenths / 10: false for NaN
atLeast(ratio, tenths) ==
    ~ratio.nan /\ 10 * ratio.num >= tenths * ratio.den

assessConfidence(orgName, result) ==
    LET nameLower == toLowerCase(orgName)
        titleLower == toLowerCase(result.title)
        urlLower == toLowerCase(result.url)
        nameWords == SelectSeq(split(nameLower), longEnough)
        matchingWords ==
            SelectSeq(nameWords,
                      LAMBDA word : includes(titleLower, word) \/ includes(urlLower, word))
        matchRatio == divide(Len(matchingWords), Len(nameWords))
    IN  IF atLeast(matchRatio, 7) THEN "high"
        ELSE IF atLeast(matchRatio, 4) THEN "medium"
        ELSE "low"

\* number of words of the organization names drawn
MaxWords == 4

WordPool == {<<"E","F","F">>, <<"o","f">>, <<"a","c","m","e">>,
             <<"f","u","n","d">>, <<"a">>}

Separators == {<<" ">>, <<" ","\t">>}

RECURSIVE joinWords(_, _)
joinWords(words, sep) ==
    IF words = <<>> THEN <<>>
    ELSE IF Len(words) = 1 THEN words[1]
    ELSE words[1] \o sep \o joinWords(Tail(words), sep)

\* the name written with whitespace before it, after it, or neither
padded(name, pad) ==
    IF pad = "lead" THEN <<" ">> \o name
    ELSE IF pad = "trail" THEN name \o <<"\n">>
    ELSE name

\* BraveWebResult: title and url of the top result
RankResults ==
    {[title |-> <<"E","F","F"," ","-"," ","A","c","m","e">>,
      url |-> <<"h","t","t","p","s",":","/","/","f","u","n","d",".","o","r","g">>],
     [title |-> <<"A","c","m","e"," ","O","r","g">>, url |-> HomeUrl],
     [title |-> <<>>, url |-> <<>>]}

RankInputs ==
    {[words |-> w, orgName |-> padded(joinWords(w, sp), pad), result |-> r] :
        w \in SeqsUpTo(WordPool, MaxWords), sp \in Separators,
        pad \in {"none", "lead", "trail"}, r \in RankResults}

RankInit ==
    /\ organizations = EmptyTable
    /\ attempts = <<>>
    /\ now = 0
    /\ pc = "idle"
    /\ pendingOrgs = <<>>
    /\ idx = 0
    /\ searchResult = NoResult
    /\ extracted = NoResult
    /\ contactInfo = NoResult
    /\ orgs0 = EmptyTable
    /\ attempts0 = <<>>
    /\ sendIdle
    /\ limiterIdle
    /\ rankInput \in RankInputs
    /\ confidence = NoType
    /\ selInput = NoResult
    /\ selected = NoResult

\* const confidence = this.assessConfidence(orgName, topResult)
Assess ==
    /\ confidence = NoType
    /\ confidence' = assessConfidence(rankInput.orgName, rankInput.result)
    /\ UNCHANGED <<pipelineVars, sendVars, limiterVars, rankInput, selInput, selected>>

RankSpec == RankInit /\ [][Assess]_vars

------------------------------------------------------------------------------
(* search.ts: rateLimit *)

minDelayMs == 1100

\* Date.now() when the first caller arrives, the amount the clock is seen to
\* advance by, the last clock value, and the number of calls stamped
StartMs == 2000
TickMs == 550
MaxClockMs == 5300
MaxCalls == 3

\* mutant: half of the deficit is waited for
deficit_Half(nowMs, last) == (minDelayMs - (nowMs - last)) \div 2

\* this.minDelayMs - elapsed
deficit(nowMs, last) == minDelayMs - (nowMs - last)

LimiterInit(ids) ==
    /\ organizations = EmptyTable
    /\ attempts = <<>>
    /\ now = 0
    /\ pc = "idle"
    /\ pendingOrgs = <<>>
    /\ idx = 0
    /\ searchResult = NoResult
    /\ extracted = NoResult
    /\ contactInfo = NoResult
    /\ orgs0 = EmptyTable
    /\ attempts0 = <<>>
    /\ sendIdle
    /\ functionsIdle
    /\ clockMs = StartMs
    /\ lastRequestTime = 0
    /\ callers = [c \in ids |-> [at |-> "idle", wakeAt |-> 0]]
    /\ stamps = <<>>

\* time passes
Tick ==
    /\ DOMAIN callers # {}
    /\ \E d \in {TickMs, 2 * TickMs} :
          /\ clockMs + d <= MaxClockMs
          /\ clockMs' = clockMs + d
    /\ UNCHANGED <<pipelineVars, sendVars, functionVars, lastRequestTime, callers,
                   stamps>>

\* this.lastRequestTime = Date.now()
stamp(c) ==
    /\ lastRequestTime' = clockMs
    /\ stamps' = Append(stamps, clockMs)
    /\ callers' = [callers EXCEPT ![c] = [at |-> "stamped", wakeAt |-> 0]]

\* a caller enters rateLimit: up to the await of the timer, or, without a
\* deficit, through to the stamp
Enter(c) ==
    /\ callers[c].at = "idle"
    /\ Len(stamps) + Cardinality({d \in DOMAIN callers : callers[d].at = "sleeping"})
           < MaxCalls
    /\ IF clockMs - lastRequestTime < minDelayMs
       THEN /\ callers' = [callers EXCEPT ![c] =
                  [at |-> "sleeping",
                   wakeAt |-> clockMs + deficit(clockMs, lastRequestTime)]]
            /\ UNCHANGED <<lastRequestTime, stamps>>
       ELSE stamp(c)
    /\ UNCHANGED <<pipelineVars, sendVars, functionVars, clockMs>>

\* the timer fires, not before its delay has passed, and the caller stamps
Wake(c) ==
    /\ callers[c].at = "sleeping"
    /\ clockMs >= callers[c].wakeAt
    /\ stamp(c)
    /\ UNCHANGED <<pipelineVars, sendVars, functionVars, clockMs>>

\* rateLimit has returned and the request of the caller is over
Return(c) ==
    /\ callers[c].at = "stamped"
    /\ callers' = [callers EXCEPT ![c] = [at |-> "idle", wakeAt |-> 0]]
    /\ UNCHANGED <<pipelineVars, sendVars, functionVars, clockMs, lastRequestTime,
                   stamps>>

LimiterNext ==
    \/ Tick
    \/ \E c \in DOMAIN callers : Enter(c)
    \/ \E c \in DOMAIN callers : Wake(c)
    \/ \E c \in DOMAIN callers : Return(c)

\* one pipeline: each call is made after the one before it has returned
SequentialSpec == LimiterInit({1}) /\ [][LimiterNext]_vars

\* two pipelines sharing one BraveSearch
ConcurrentSpec == LimiterInit({1, 2}) /\ [][LimiterNext]_vars

------------------------------------------------------------------------------
(* Properties *)

Terminal == {"success", "failed", "manual"}

HasChannel(row) == row.contact_type \in {"email", "form", "both"}

\* the rows the running pass has appended to the table attempts
passRows == SubSeq(attempts, Len(attempts0) + 1, Len(attempts))

\* the batch loop has written the terminal outcome of pendingOrgs[k]
outcomeWritten(k) ==
    \/ k < idx
    \/ k = idx /\ pc \in {"failA_log", "errB_log", "okB_log"}

\* positions of the rows of log that organization id owns
ownedRows(log, id) == {j \in 1..Len(log) : log[j].org_id = id}

\* C1: in every reachable store state, for every organization, contactValue
\* is non-null if and only if contactType is a channel (email, form or both).
C1_ValueIffChannel ==
    \A n \in DOMAIN organizations :
        (organizations[n].contact_value # NULL) <=> HasChannel(organizations[n])

\* C2: in every reachable store state, an organization with status success
\* has contactType in {email, form, both} and a non-null contactValue.
C2_SuccessHasChannel ==
    \A n \in DOMAIN organizations :
        organizations[n].status = "success" =>
            /\ HasChannel(organizations[n])
            /\ organizations[n].contact_value # NULL

\* C3: during and at the end of a pass, every organization that was pending
\* at its start has attempts = its value at the start + 1 and a fresh
\* lastAttemptAt once its terminal outcome is written, whichever branch wrote
\* it, and both unchanged before that: one increment and one stamp per pass.
C3_OneAttemptPerPass ==
    pc # "idle" =>
        \A k \in 1..Len(pendingOrgs) :
            LET n == pendingOrgs[k].name
                row == organizations[n]
                old == orgs0[n]
            IN  IF outcomeWritten(k)
                THEN /\ row.attempts = old.attempts + 1
                     /\ row.last_attempt_at > old.last_attempt_at
                     /\ row.last_attempt_at <= now
                     /\ row.status \in Terminal
                ELSE /\ row.attempts = old.attempts
                     /\ row.last_attempt_at = old.last_attempt_at

\* a pass over two organizations has ended, one failed at stage A or B and the
\* other did not
C3_Witness ==
    /\ pc = "finally"
    /\ Len(pendingOrgs) = 2
    /\ organizations[pendingOrgs[1].name].status = "failed"
    /\ organizations[pendingOrgs[2].name].status \in {"success", "manual"}
    /\ organizations[pendingOrgs[2].name].attempts = 1

\* C4: under any sequence of import, updateOrgContact, resetOrg, resetAllOrgs
\* and logAttempt, no organization is removed and no attempts counter
\* decreases; the steps other than updateOrgContact (the only one that
\* advances the clock of this specification), so import, resetOrg,
\* resetAllOrgs and logAttempt, leave every counter unchanged.
C4_AttemptsMonotonic ==
    [][ \A n \in DOMAIN organizations :
            /\ n \in DOMAIN organizations'
            /\ organizations'[n].attempts >= organizations[n].attempts
            /\ now' = now =>
                   organizations'[n].attempts = organizations[n].attempts ]_vars

\* an organization with recorded outcomes has been reset
C4_Witness ==
    \E n \in DOMAIN organizations :
        /\ organizations[n].attempts >= 2
        /\ organizations[n].status = "pending"

nonePending == \A n \in DOMAIN organizations : organizations[n].status # "pending"

\* C5: a status changes only from pending to a terminal status by a step of
\* a pass, or to pending by a reset; during a pass the row of an organization
\* that was not pending at its start stays as it was and no Attempt of the
\* pass is owned by it; at the end of a pass nothing is pending, and a batch
\* that finds nothing pending changes nothing.
C5_NotPendingUntouched ==
    pc # "idle" =>
        /\ \A n \in DOMAIN orgs0 :
               orgs0[n].status # "pending" =>
                   /\ organizations[n] = orgs0[n]
                   /\ ownedRows(passRows, orgs0[n].id) = {}
        /\ pc = "finally" => nonePending

C5_StatusStep ==
    /\ \A n \in DOMAIN organizations :
           /\ n \in DOMAIN organizations'
           /\ organizations'[n].status # organizations[n].status =>
                  \/ /\ pc # "idle"
                     /\ organizations[n].status = "pending"
                     /\ organizations'[n].status \in Terminal
                  \/ /\ ResetOrg \/ ResetAllOrgs
                     /\ organizations'[n].status = "pending"
    /\ (pc = "idle" /\ BatchStart /\ nonePending) => UNCHANGED vars

C5_StatusTransitions == [](C5_NotPendingUntouched) /\ [][C5_StatusStep]_vars

\* a pass has ended that skipped an organization with a terminal status
C5_Witness ==
    /\ pc = "finally"
    /\ \E n \in DOMAIN orgs0 :
           /\ orgs0[n].status \in Terminal
           /\ organizations[n] = orgs0[n]

\* how far the loop is through the body of one iteration
stepRank ==
    CASE pc = "search" -> 0
      [] pc = "okA_log" -> 1
      [] pc = "extract" -> 2
      [] pc \in {"failA_update", "errB_update", "okB_update"} -> 3
      [] pc \in {"failA_log", "errB_log", "okB_log"} -> 4
      [] OTHER -> 0

\* the steps the pass has left at most
passMeasure == 5 * (Len(pendingOrgs) + 1 - idx) - stepRank

\* C6: a running pass can always take its next step, every step it takes
\* brings it strictly nearer to the end of its loop, so a pass that keeps
\* running (WF_vars(PassStep)) reaches the end; and at the end every
\* organization that was pending at its start has a terminal status, whatever
\* the collaborators returned for the organizations before it.
C6_PassCompletes ==
    /\ [](pc \notin {"idle", "finally"} => ENABLED PassStep)
    /\ [][pc \notin {"idle", "finally"} =>
            /\ pc' # "idle"
            /\ passMeasure' < passMeasure
            /\ passMeasure' >= 0
            /\ pc' = "finally" <=> passMeasure' = 0]_vars
    /\ [](pc = "finally" =>
            \A k \in 1..Len(pendingOrgs) :
                organizations[pendingOrgs[k].name].status \in Terminal)

\* a pass has ended whose first organization failed and whose second succeeded
C6_Witness ==
    /\ pc = "finally"
    /\ Len(pendingOrgs) = 2
    /\ organizations[pendingOrgs[1].name].status = "failed"
    /\ organizations[pendingOrgs[2].name].status = "success"

\* C7: the rows a pass appends are of type search or contact_find, at most
\* one of each per organization, and a contact_find row comes after a
\* successful search row of the same organization in the same pass.
C7_OneCallPerStage ==
    pc # "idle" =>
        /\ \A j \in 1..Len(passRows) :
               /\ passRows[j].attempt_type \in {"search", "contact_find"}
               /\ passRows[j].attempt_type = "contact_find" =>
                      \E i \in 1..(j - 1) :
                          /\ passRows[i].org_id = passRows[j].org_id
                          /\ passRows[i].attempt_type = "search"
                          /\ passRows[i].success = 1
        /\ \A k \in 1..Len(pendingOrgs) :
               \A t \in {"search", "contact_find"} :
                   Cardinality({j \in ownedRows(passRows, pendingOrgs[k].id) :
                                   passRows[j].attempt_type = t}) <= 1

\* a pass over two organizations has ended, both stages logged for one of them
C7_Witness ==
    /\ pc = "finally"
    /\ Len(pendingOrgs) = 2
    /\ Len(passRows) >= 3
    /\ \E j \in 1..Len(passRows) : passRows[j].attempt_type = "contact_find"

\* the organization is new to the pass: no outcome and no Attempt before it
freshOrg(n) == orgs0[n].attempts = 0 /\ ownedRows(attempts0, orgs0[n].id) = {}

\* C8: while stage A's result has no usable contact URL the pass is on its
\* failure branch (no stage B call), and the step that ends the organization
\* leaves it failed with stage A's error as errorMessage and has appended one
\* Attempt(search, success = 0), the only row the pass owns for it; a fresh
\* organization then has attempts = 1 and that single Attempt row.
C8_StageAFailureStep ==
    pc = "failA_log" =>
        LET n == org.name
            row == organizations'[n]
            mine == ownedRows(attempts', row.id)
        IN  /\ row.status = "failed"
            /\ row.error_message = searchResult.error
            /\ Len(attempts') = Len(attempts) + 1
            /\ attempts'[Len(attempts')].org_id = row.id
            /\ attempts'[Len(attempts')].attempt_type = "search"
            /\ attempts'[Len(attempts')].success = 0
            /\ attempts'[Len(attempts')].details = [error |-> searchResult.error]
            /\ {j \in mine : j > Len(attempts0)} = {Len(attempts')}
            /\ freshOrg(n) => row.attempts = 1 /\ mine = {Len(attempts')}

C8_NoStageB ==
    (pc \notin {"idle", "search", "finally"} /\ ~Truthy(searchResult.contactUrl)) =>
        pc \in {"failA_update", "failA_log"}

C8_StageAFailure == [](C8_NoStageB) /\ [][C8_StageAFailureStep]_vars

\* a fresh organization has ended a pass failed at stage A
C8_Witness ==
    /\ pc = "finally"
    /\ \E k \in 1..Len(pendingOrgs) :
           LET n == pendingOrgs[k].name
           IN  /\ freshOrg(n)
               /\ organizations[n].status = "failed"
               /\ organizations[n].attempts = 1
               /\ \E j \in 1..Len(attempts) :
                      /\ ownedRows(attempts, organizations[n].id) = {j}
                      /\ attempts[j].attempt_type = "search"
                      /\ attempts[j].success = 0

\* C9: when the page threw in stage B, the step that ends the organization
\* leaves it failed and appends Attempt(contact_find, success = 0) right
\* after the Attempt(search, success = 1) of the same organization.
C9_ExtractionErrorFails ==
    [][ (pc \in {"errB_log", "okB_log"} /\ extracted.threw) =>
            LET row == organizations'[org.name]
                last == Len(attempts')
            IN  /\ row.status = "failed"
                /\ last = Len(attempts) + 1
                /\ attempts'[last].org_id = row.id
                /\ attempts'[last].attempt_type = "contact_find"
                /\ attempts'[last].success = 0
                /\ attempts'[last - 1].org_id = row.id
                /\ attempts'[last - 1].attempt_type = "search"
                /\ attempts'[last - 1].success = 1 ]_vars

\* C10: when the page was read without error and gave no email and no form,
\* the pass is on its no-error branch and writes status manual and
\* contactType none for the organization.
C10_NoChannelIsManual ==
    (pc \in {"errB_update", "errB_log", "okB_update", "okB_log"}
       /\ ~extracted.threw /\ extracted.emails = <<>>
       /\ ~extracted.hasContactForm) =>
        /\ pc \in {"okB_update", "okB_log"}
        /\ pc = "okB_log" =>
               /\ organizations[org.name].status = "manual"
               /\ organizations[org.name].contact_type = "none"

\* the outcome of a page with no email and no form has been written
C10_Witness ==
    /\ pc = "okB_log"
    /\ ~extracted.threw
    /\ extracted.emails = <<>>
    /\ ~extracted.hasContactForm
    /\ organizations[org.name].status = "manual"

\* stage B has returned for the organization the loop is at
afterStageB == pc \in {"errB_update", "errB_log", "okB_update", "okB_log"}

\* C11: when stage B returned a contactType other than none the pass is on
\* its no-error branch, and the step that ends the organization leaves it
\* with status success, the contactType of stage B, the selected value (the
\* email, else the form URL) and stage A's website origin, and appends
\* Attempt(contact_find, success = 1) whose details are the selected channel.
C11_ChannelStep ==
    (pc = "okB_log" /\ contactInfo.contactType # "none") =>
        LET row == organizations'[org.name]
            last == Len(attempts')
        IN  /\ row.status = "success"
            /\ row.contact_type = contactInfo.contactType
            /\ row.contact_value = IF Truthy(contactInfo.email)
                                   THEN contactInfo.email
                                   ELSE contactInfo.formUrl
            /\ searchResult.websiteUrl # NULL
            /\ row.website = searchResult.websiteUrl
            /\ row.error_message = NULL
            /\ last = Len(attempts) + 1
            /\ attempts'[last].org_id = row.id
            /\ attempts'[last].attempt_type = "contact_find"
            /\ attempts'[last].success = 1
            /\ attempts'[last].details = [type |-> contactInfo.contactType,
                                          email |-> contactInfo.email,
                                          formUrl |-> contactInfo.formUrl]

C11_ChannelBranch ==
    (afterStageB /\ contactInfo.contactType # "none") =>
        pc \in {"okB_update", "okB_log"}

C11_ChannelIsSuccess == [](C11_ChannelBranch) /\ [][C11_ChannelStep]_vars

\* a pass has ended with an organization resolved to both channels
C11_Witness ==
    /\ pc = "finally"
    /\ Len(attempts) >= 2
    /\ attempts[Len(attempts)].attempt_type = "contact_find"
    /\ attempts[Len(attempts)].success = 1
    /\ attempts[Len(attempts)].details.type = "both"
    /\ \E n \in DOMAIN organizations :
           /\ organizations[n].id = attempts[Len(attempts)].org_id
           /\ organizations[n].status = "success"
           /\ organizations[n].contact_type = "both"
           /\ organizations[n].website = WebsiteOrigin

\* C12: when stage A returned a contact URL and the page gave no email, a
\* form and no form-action URL, the pass is on its no-error branch and writes
\* status success, contactType form and, as contactValue, the contact page
\* URL stage A returned.
C12_FormFallsBackToContactUrl ==
    (afterStageB /\ ~extracted.threw /\ extracted.emails = <<>>
       /\ extracted.hasContactForm /\ extracted.formAction = NULL) =>
        /\ pc \in {"okB_update", "okB_log"}
        /\ Truthy(searchResult.contactUrl)
        /\ pc = "okB_log" =>
               /\ organizations[org.name].status = "success"
               /\ organizations[org.name].contact_type = "form"
               /\ organizations[org.name].contact_value = searchResult.contactUrl

\* the outcome of a page with a form and no action URL has been written
C12_Witness ==
    /\ pc = "okB_log"
    /\ ~extracted.threw
    /\ extracted.emails = <<>>
    /\ extracted.hasContactForm
    /\ extracted.formAction = NULL
    /\ organizations[org.name].contact_value = ContactUrl

\* the row records the outcome of a terminating stage: a failed search, or a
\* contact_find
terminating(a) ==
    \/ a.attempt_type = "search" /\ a.success = 0
    \/ a.attempt_type = "contact_find"

\* C13: whenever no pass is running, also after a pass was stopped at any
\* point, every organization has one Attempt record of a terminating stage
\* for each terminal outcome written to it (attempts counts the outcomes): no
\* terminal status is in the store without its Attempt record.
C13_StoppedPassIsClean ==
    pc = "idle" =>
        \A n \in DOMAIN organizations :
            Cardinality({j \in ownedRows(attempts, organizations[n].id) :
                            terminating(attempts[j])})
                = organizations[n].attempts

\* C14: in every reachable store state, resetOrg(name) of an existing
\* organization gives it status pending and errorMessage NULL whatever its
\* status was, and resetOrg(name) applied to the result gives the result
\* again; resetAllOrgs does so for every organization.
C14_ResetIdempotent ==
    /\ \A name \in DOMAIN organizations :
           LET once == resetOrg(organizations, name)
           IN  /\ once[name].status = "pending"
               /\ once[name].error_message = NULL
               /\ resetOrg(once, name) = once
    /\ LET all == resetAllOrgs(organizations)
       IN  /\ \A n \in DOMAIN all :
                  all[n].status = "pending" /\ all[n].error_message = NULL
           /\ resetAllOrgs(all) = all
    /\ \A name \in Names \ DOMAIN organizations :
           resetOrg(organizations, name) = organizations

\* a failed organization and a successful one have been reset
C14_Witness ==
    /\ Cardinality(DOMAIN organizations) = 2
    /\ \A n \in DOMAIN organizations :
           /\ organizations[n].status = "pending"
           /\ organizations[n].error_message = NULL
           /\ organizations[n].attempts = 1
    /\ \E n, m \in DOMAIN organizations :
           /\ organizations[n].contact_type = "none"
           /\ organizations[m].contact_type = "email"

\* the two rows agree on every column but status and error_message
sameButStatus(a, b) ==
    [a EXCEPT !.status = "pending", !.error_message = NULL]
        = [b EXCEPT !.status = "pending", !.error_message = NULL]

\* C15: in every reachable store state resetOrg(name) and resetAllOrgs give a
\* table with the same organizations, each with its attempts, lastAttemptAt,
\* website, contactType and contactValue as before, resetOrg(name) leaving
\* every row but the named one as it was; and a step that takes a status
\* back to pending leaves the Attempt log as it was.
C15_ResetFrameState ==
    /\ \A name \in Names :
           LET once == resetOrg(organizations, name)
           IN  /\ DOMAIN once = DOMAIN organizations
               /\ \A n \in DOMAIN once :
                      /\ sameButStatus(once[n], organizations[n])
                      /\ n # name => once[n] = organizations[n]
    /\ LET all == resetAllOrgs(organizations)
       IN  /\ DOMAIN all = DOMAIN organizations
           /\ \A n \in DOMAIN all : sameButStatus(all[n], organizations[n])

C15_ResetFrameStep ==
    (\E n \in DOMAIN organizations :
         /\ organizations[n].status # "pending"
         /\ organizations'[n].status = "pending") =>
        /\ attempts' = attempts
        /\ DOMAIN organizations' = DOMAIN organizations
        /\ \A n \in DOMAIN organizations :
               sameButStatus(organizations'[n], organizations[n])

C15_ResetFrame == [](C15_ResetFrameState) /\ [][C15_ResetFrameStep]_vars

\* an organization with a channel, a website and a logged Attempt has been
\* reset
C15_Witness ==
    \E n \in DOMAIN organizations :
        /\ organizations[n].status = "pending"
        /\ organizations[n].contact_type = "both"
        /\ organizations[n].website = WebsiteOrigin
        /\ organizations[n].attempts = 1
        /\ ownedRows(attempts, organizations[n].id) # {}

\* the names of a list
listed(names) == {names[k] : k \in 1..Len(names)}

\* C16: in every reachable store state and for every list of names,
\* importOrgs keeps every organization already present exactly as it was,
\* creates a pending row with a new id for every listed name that was absent,
\* returns the number of distinct names it created, and importing the same
\* list into the result returns 0 and gives the result again.
C16_ImportIdempotent ==
    \A names \in SeqsUpTo(Names, MaxImport) :
        LET r == importOrgs(organizations, names)
            created == listed(names) \ DOMAIN organizations
        IN  /\ DOMAIN r.orgs = DOMAIN organizations \cup listed(names)
            /\ \A n \in DOMAIN organizations : r.orgs[n] = organizations[n]
            /\ \A n \in created :
                   /\ r.orgs[n].name = n
                   /\ r.orgs[n].status = "pending"
                   /\ r.orgs[n].attempts = 0
            /\ \A n, m \in DOMAIN r.orgs :
                   r.orgs[n].id = r.orgs[m].id => n = m
            /\ r.count = Cardinality(created)
            /\ importOrgs(r.orgs, names) = [orgs |-> r.orgs, count |-> 0]

\* an organization was imported into a store holding one with an outcome
C16_Witness ==
    \E n, m \in DOMAIN organizations :
        /\ organizations[n].id = 1
        /\ organizations[n].attempts = 2
        /\ organizations[n].status = "success"
        /\ organizations[m].id = 2
        /\ organizations[m].attempts = 0

\* C17: an organization no outcome was ever recorded for (attempts = 0) is as
\* import created it: status pending, contactType none, contactValue,
\* website and errorMessage null.
C17_NewOrgDefaults ==
    \A n \in DOMAIN organizations :
        organizations[n].attempts = 0 =>
            /\ organizations[n].status = "pending"
            /\ organizations[n].contact_type = "none"
            /\ organizations[n].contact_value = NULL
            /\ organizations[n].website = NULL
            /\ organizations[n].error_message = NULL

\* C18: no step of import, updateOrgContact, resetOrg and resetAllOrgs takes a
\* non-null website back to null, and in every reachable store state
\* updateOrgContact called without a website leaves the stored website of the
\* organization as it is.
C18_WebsiteState ==
    \A n \in DOMAIN organizations :
        \A data \in OutcomeData :
            data.website = NULL =>
                updateOrgContact(organizations, n, data, now)[n].website
                    = organizations[n].website

C18_WebsiteStep ==
    \A n \in DOMAIN organizations :
        organizations[n].website # NULL =>
            /\ n \in DOMAIN organizations'
            /\ organizations'[n].website # NULL

C18_WebsiteKept == [](C18_WebsiteState) /\ [][C18_WebsiteStep]_vars

\* an outcome without a website was recorded after one with a website
C18_Witness ==
    \E n \in DOMAIN organizations :
        /\ organizations[n].website = WebsiteOrigin
        /\ organizations[n].status = "failed"
        /\ organizations[n].error_message = ErrNoResults
        /\ organizations[n].attempts = 2

\* C19: the terminal write that follows a successful stage A stores the
\* origin of the first search result as website when no website was stored,
\* and no step replaces a stored website by another value.
C19_WebsiteSetOnce ==
    [][ \A n \in DOMAIN organizations :
            LET old == organizations[n].website
                new == organizations'[n].website
            IN  /\ old # NULL => new = old
                /\ (old = NULL /\ pc \in {"errB_update", "okB_update"}
                      /\ n = org.name) =>
                       /\ new = searchResult.websiteUrl
                       /\ new = urlOrigin(ContactUrl) \/ new = urlOrigin(PlainContactUrl) ]_vars

\* C20: in every reachable store state logAttempt with the name of no
\* organization gives the Attempt log as it was, and with the name of an
\* organization gives the log with one more row, owned by that organization;
\* and a step that changes the log adds one row to it, owned by an
\* organization of the store, and changes no organization.
C20_AppendState ==
    \A name \in Names, success \in BOOLEAN :
        LET log == logAttempt(organizations, attempts, name, "email", success,
                              mailDetails)
        IN  IF name \notin DOMAIN organizations
            THEN log = attempts
            ELSE /\ Len(log) = Len(attempts) + 1
                 /\ SubSeq(log, 1, Len(attempts)) = attempts
                 /\ log[Len(log)].org_id = organizations[name].id
                 /\ log[Len(log)].attempt_type = "email"
                 /\ log[Len(log)].success = IF success THEN 1 ELSE 0

C20_AppendStep ==
    attempts' # attempts =>
        /\ organizations' = organizations
        /\ Len(attempts') = Len(attempts) + 1
        /\ SubSeq(attempts', 1, Len(attempts)) = attempts
        /\ \E n \in DOMAIN organizations :
               organizations[n].id = attempts'[Len(attempts')].org_id

C20_AppendAttemptSafe == [](C20_AppendState) /\ [][C20_AppendStep]_vars

\* two Attempts were logged for the only organization of the store, the other
\* name being unknown to it
C20_Witness ==
    /\ Cardinality(DOMAIN organizations) = 1
    /\ Len(attempts) = 2
    /\ attempts[1].success # attempts[2].success
    /\ \A n \in DOMAIN organizations :
           ownedRows(attempts, organizations[n].id) = {1, 2}

\* C21: every step of import, the resets, batch and send-emails leaves the
\* Attempt log as it was or longer, the rows it had in place and unchanged
\* (id, type, success flag, details, owner), and the owner of every row is an
\* organization of the store.
C21_LogStep ==
    /\ Len(attempts') >= Len(attempts)
    /\ SubSeq(attempts', 1, Len(attempts)) = attempts

C21_LogOwned ==
    \A j \in 1..Len(attempts) :
        /\ attempts[j].id = j
        /\ \E n \in DOMAIN organizations : organizations[n].id = attempts[j].org_id

C21_AppendOnly == [](C21_LogOwned) /\ [][C21_LogStep]_vars

\* a pass and a send run have logged Attempts for an organization that was
\* then reset
C21_Witness ==
    /\ \E j \in 1..Len(attempts) : attempts[j].attempt_type = "contact_find"
    /\ attempts[Len(attempts)].attempt_type = "email"
    /\ \E n \in DOMAIN organizations :
           /\ organizations[n].id = attempts[Len(attempts)].org_id
           /\ organizations[n].status = "pending"

\* the number of organizations that satisfy P
countOrgs(P(_)) == Cardinality({n \in DOMAIN organizations : P(organizations[n])})

\* C22: in every reachable store state getStats() gives the counts over the
\* rows as they are: total the number of organizations; pending, success,
\* failed and manual the numbers in each status, which sum to total;
\* withEmail the number with contactType email or both and withForm the number
\* with contactType form or both, an organization with no channel (contactType
\* none, or never set) being in neither.
C22_StatsMatchRows ==
    LET stats == getStats(organizations)
    IN  /\ stats.total = Cardinality(DOMAIN organizations)
        /\ stats.pending = countOrgs(LAMBDA o : o.status = "pending")
        /\ stats.success = countOrgs(LAMBDA o : o.status = "success")
        /\ stats.failed = countOrgs(LAMBDA o : o.status = "failed")
        /\ stats.manual = countOrgs(LAMBDA o : o.status = "manual")
        /\ stats.pending + stats.success + stats.failed + stats.manual = stats.total
        /\ stats.withEmail = countOrgs(LAMBDA o : o.contact_type \in {"email", "both"})
        /\ stats.withForm = countOrgs(LAMBDA o : o.contact_type \in {"form", "both"})
        /\ stats.withEmail + stats.withForm
               = countOrgs(LAMBDA o : HasChannel(o))
                   + countOrgs(LAMBDA o : o.contact_type = "both")

\* the stats of a store with a freshly imported organization and one resolved
\* to both channels
C22_Witness ==
    /\ pc = "idle"
    /\ \E n, m \in DOMAIN organizations :
           /\ organizations[n].contact_type = "both"
           /\ organizations[m].attempts = 0
    /\ getStats(organizations).withEmail = 1
    /\ getStats(organizations).withForm = 1
    /\ getStats(organizations).total = 2

\* C23: the contactType the selector returns for a page is both when the
\* page lists an email and has a form, email when it lists an email and has
\* no form, form when it lists none and has a form, none otherwise, whatever
\* the form-action URL and the contact URL are.
C23_TypeTable ==
    selected # NoResult =>
        LET hasEmail == selInput.page.emails # <<>>
            hasForm == selInput.page.hasContactForm
        IN  /\ selected.contactType \in {"both", "email", "form", "none"}
            /\ selected.contactType = "both" <=> (hasEmail /\ hasForm)
            /\ selected.contactType = "email" <=> (hasEmail /\ ~hasForm)
            /\ selected.contactType = "form" <=> (~hasEmail /\ hasForm)
            /\ selected.contactType = "none" <=> (~hasEmail /\ ~hasForm)

\* a page with emails, a form and a form action was typed both
C23_Witness ==
    /\ selected # NoResult
    /\ selected.contactType = "both"
    /\ selInput.page.formAction = FormActionUrl
    /\ Len(selInput.page.emails) = 2

\* candidate e begins, case-insensitively, with priority prefix number p
matchesPrefix(e, p) == startsWith(toLowerCase(e), priorityPrefixes[p])

\* C24: for a page with a non-empty email list the selector's email is, when
\* some candidate matches a priority prefix, the first candidate in list order
\* that matches the earliest matched prefix of info@, contact@, support@,
\* help@, hello@, and otherwise the first candidate; it is a member of the
\* list; [jane@, info@] gives info@ and [jane@, bob@] gives jane@.
C24_BestEmail ==
    (selected # NoResult /\ selInput.page.emails # <<>>) =>
        LET emails == selInput.page.emails
            matched == {p \in 1..Len(priorityPrefixes) :
                           \E k \in 1..Len(emails) : matchesPrefix(emails[k], p)}
        IN  /\ \E k \in 1..Len(emails) : selected.email = emails[k]
            /\ matched = {} => selected.email = emails[1]
            /\ \A p \in matched :
                   (\A q \in matched : p <= q) =>
                       \E k \in 1..Len(emails) :
                           /\ matchesPrefix(emails[k], p)
                           /\ \A j \in 1..(k - 1) : ~matchesPrefix(emails[j], p)
                           /\ selected.email = emails[k]
            /\ emails = <<JaneEmail, InfoEmail>> => selected.email = InfoEmail
            /\ emails = <<JaneEmail, BobEmail>> => selected.email = JaneEmail

\* from [contact@, Info@] the selector took Info@
C24_Witness ==
    /\ selected # NoResult
    /\ selInput.page.emails = <<ContactEmail, InfoEmail>>
    /\ selected.email = InfoEmail

\* C25: the selector's formUrl is the form-action URL of the page when the
\* page gave one (a non-empty string); otherwise the contact URL when the
\* page has a form; otherwise null.
C25_FormUrl ==
    selected # NoResult =>
        LET action == selInput.page.formAction
            given == action # NULL /\ action # <<>>
        IN  /\ given => selected.formUrl = action
            /\ (~given /\ selInput.page.hasContactForm) =>
                   selected.formUrl = selInput.contactUrl
            /\ (~given /\ ~selInput.page.hasContactForm) => selected.formUrl = NULL

\* a page with a form and a form action kept the form action
C25_Witness ==
    /\ selected # NoResult
    /\ selInput.page.hasContactForm
    /\ selInput.page.formAction = FormActionUrl
    /\ selected.formUrl = FormActionUrl
    /\ selInput.contactUrl = ContactUrl

\* the words of the name drawn that are longer than two characters
longWords(words) == SelectSeq(words, LAMBDA w : Len(w) > 2)

\* how many of them occur, lower-cased, in the lower-cased title or URL
foundWords(words, result) ==
    SelectSeq(longWords(words),
              LAMBDA w : \/ includes(toLowerCase(result.title), toLowerCase(w))
                         \/ includes(toLowerCase(result.url), toLowerCase(w)))

\* C26: for a name without any word longer than two characters the ranker
\* returns low, whatever the title and the URL of the candidate are; the
\* ratio 0 / 0 raises nothing.
C26_NoTokensIsLow ==
    (confidence # NoType /\ longWords(rankInput.words) = <<>>) => confidence = "low"

\* a name of short words only was ranked against a candidate with a title
C26_Witness ==
    /\ confidence = "low"
    /\ Len(rankInput.words) = 2
    /\ longWords(rankInput.words) = <<>>
    /\ rankInput.result.title # <<>>

\* C27: for a name with n >= 1 words longer than two characters, m of which
\* occur in the lower-cased title or URL, the ranker returns high iff
\* m/n >= 0.7, medium iff 0.4 <= m/n < 0.7 and low iff m/n < 0.4; the name
\* without its shorter words is ranked the same.
C27_RatioThresholds ==
    (confidence # NoType /\ longWords(rankInput.words) # <<>>) =>
        LET n == Len(longWords(rankInput.words))
            m == Len(foundWords(rankInput.words, rankInput.result))
        IN  /\ confidence \in {"high", "medium", "low"}
            /\ confidence = "high" <=> 10 * m >= 7 * n
            /\ confidence = "medium" <=> (10 * m >= 4 * n /\ 10 * m < 7 * n)
            /\ confidence = "low" <=> 10 * m < 4 * n
            /\ confidence = assessConfidence(joinWords(longWords(rankInput.words), <<" ">>),
                                             rankInput.result)

\* three of four words found (0.75) was ranked high
C27_Witness ==
    /\ confidence = "high"
    /\ Len(longWords(rankInput.words)) = 4
    /\ Len(foundWords(rankInput.words, rankInput.result)) = 3

\* C28: when each call is made after the one before it has returned, every
\* stamp of lastRequestTime is at least minDelayMs after the stamp before it,
\* also when no time passes between the calls.
C28_SequentialSpacing ==
    /\ \A k \in 1..(Len(stamps) - 1) : stamps[k + 1] - stamps[k] >= minDelayMs
    /\ stamps # <<>> => lastRequestTime = stamps[Len(stamps)]

\* a call entered with no time elapsed was stamped exactly minDelayMs later
C28_Witness ==
    /\ Len(stamps) >= 2
    /\ stamps[2] - stamps[1] = minDelayMs

\* C29: with two callers in rateLimit of the same instance, any two calls
\* are stamped at least minDelayMs apart.
C29_ConcurrentSpacing ==
    \A j, k \in 1..Len(stamps) : j < k => stamps[k] - stamps[j] >= minDelayMs

\* C30: in both modes of send-emails a message is handed to the transport
\* only in a run whose verifyTransport() returned true, and a step in which
\* the verification fails ends the run without a message sent, without an
\* Attempt row written and without a change to an organization.
C30_SendStep ==
    /\ outbox' # outbox =>
           /\ verified = [threw |-> FALSE, value |-> TRUE]
           /\ spc \in {"send", "test_send"}
    /\ attempts' # attempts => verified = [threw |-> FALSE, value |-> TRUE]
    /\ (spc \in {"verify", "test_verify"} /\ spc' = "idle") =>
           /\ outbox' = outbox
           /\ attempts' = attempts
           /\ organizations' = organizations
           /\ transporter' = FALSE

C30_SendState ==
    /\ spc \in {"send", "summary", "test_send"} <=>
           verified = [threw |-> FALSE, value |-> TRUE]
    /\ spc \in {"idle", "verify", "test_verify"} <=> verified = NoResult

C30_VerifyBeforeSend == [](C30_SendState) /\ [][C30_SendStep]_vars

\* a send run whose verification failed ended with nothing sent, after a
\* test run that sent its message
C30_Witness ==
    /\ spc = "idle"
    /\ \E f \in DOMAIN logFiles :
           /\ Len(logFiles[f]) = 2
           /\ logFiles[f][2].kind = "error"
    /\ Len(outbox) = 1
    /\ outbox[1].orgName = TestOrgName
    /\ attempts = <<>>

\* the messages the running send run has handed to the transport so far
runOutbox == SubSeq(outbox, Len(outbox) - (sidx - 1) + 1, Len(outbox))

\* C31: in a send run every targeted organization gets one send attempt, in
\* the order of the list, whether the sends before it failed or not; the
\* tallies count the sends made, and the summary written to the transcript
\* has sent + failed = the number of targeted organizations.
C31_RunState ==
    spc \in {"send", "summary"} =>
        /\ sidx - 1 <= Len(orgsToEmail)
        /\ sidx - 1 <= Len(outbox)
        /\ sent + failed = sidx - 1
        /\ \A k \in 1..(sidx - 1) :
               /\ runOutbox[k].orgName = orgsToEmail[k].name
               /\ runOutbox[k].toEmail = orgsToEmail[k].contact_value
        /\ sent = Cardinality({k \in 1..(sidx - 1) : runOutbox[k].success})
        /\ spc = "summary" <=> sidx - 1 = Len(orgsToEmail)

C31_RunStep ==
    /\ (spc = "send" /\ failed' = failed + 1) =>
           /\ spc' = IF sidx = Len(orgsToEmail) THEN "summary" ELSE "send"
           /\ Len(outbox') = Len(outbox) + 1
    /\ (spc = "summary" /\ spc' = "idle") =>
           LET file == logFiles'[currentLogFile]
           IN  /\ file = Append(logFiles[currentLogFile], file[Len(file)])
               /\ file[Len(file)] = [kind |-> "summary", sent |-> sent,
                                      failed |-> failed, total |-> Len(orgsToEmail)]

C31_FailureDoesNotStop == [](C31_RunState) /\ [][C31_RunStep]_vars

\* a run of two organizations whose first send failed sent the second and
\* wrote Sent: 1, Failed: 1, Total: 2
C31_Witness ==
    /\ spc = "idle"
    /\ Len(outbox) = 2
    /\ ~outbox[1].success
    /\ outbox[2].success
    /\ outbox[1].orgName # outbox[2].orgName
    /\ \E f \in DOMAIN logFiles :
           logFiles[f][Len(logFiles[f])] =
               [kind |-> "summary", sent |-> 1, failed |-> 1, total |-> 2]

\* the messages sent to organizations, the test messages left out
orgMessages == SelectSeq(outbox, LAMBDA m : m.orgName \in DOMAIN organizations)

\* C32: no organization is sent a message after a message was sent to it
\* successfully, over any sequence of send runs.
C32_ContactedOnce ==
    \A j, k \in 1..Len(orgMessages) :
        (j < k /\ orgMessages[j].success) =>
            orgMessages[k].orgName # orgMessages[j].orgName

\* the transcript entries of the sends, in the order of the files
emailEntries ==
    SelectSeq(allEntries(logFiles, DOMAIN logFiles), LAMBDA e : e.kind = "email")

\* the Attempt rows of type email
emailRows == SelectSeq(attempts, LAMBDA a : a.attempt_type = "email")

\* C33: every send of a run appends one transcript entry and one
\* Attempt(email) row that carry the outcome of the send; the entries of the
\* sends follow the header of their run in the order of the sends and come
\* before its summary, and an entry once written stays as it is.
C33_TranscriptState ==
    /\ Len(emailEntries) = Len(orgMessages)
    /\ Len(emailRows) = Len(orgMessages)
    /\ \A k \in 1..Len(orgMessages) :
           /\ emailEntries[k].orgName = orgMessages[k].orgName
           /\ emailEntries[k].success = orgMessages[k].success
           /\ emailRows[k].org_id = organizations[orgMessages[k].orgName].id
           /\ emailRows[k].success = (IF orgMessages[k].success THEN 1 ELSE 0)
    /\ \A f \in DOMAIN logFiles :
           /\ logFiles[f][1].kind = "header"
           /\ \A k \in 2..Len(logFiles[f]) :
                  LET kind == logFiles[f][k].kind
                      before == logFiles[f][k - 1].kind
                  IN  /\ kind = "header" => before \in {"error", "summary"}
                      /\ kind \in {"verified", "error"} => before = "header"
                      /\ kind = "email" => before \in {"verified", "email"}
                      /\ kind = "summary" => before = "email"

C33_TranscriptStep ==
    /\ \A f \in DOMAIN logFiles :
           /\ f \in DOMAIN logFiles'
           /\ Len(logFiles'[f]) >= Len(logFiles[f])
           /\ SubSeq(logFiles'[f], 1, Len(logFiles[f])) = logFiles[f]
    /\ (spc = "send" /\ sidx' = sidx + 1) =>
           /\ Len(outbox') = Len(outbox) + 1
           /\ Len(attempts') = Len(attempts) + 1
           /\ Len(logFiles'[currentLogFile]) = Len(logFiles[currentLogFile]) + 1
           /\ \A f \in DOMAIN logFiles' \ {currentLogFile} : logFiles'[f] = logFiles[f]
           /\ SubSeq(attempts', 1, Len(attempts)) = attempts

C33_TranscriptInOrder == [](C33_TranscriptState) /\ [][C33_TranscriptStep]_vars

\* a run sent to two organizations, the first send failing, and its
\* transcript reads header, verified, failed send, send, summary
C33_Witness ==
    /\ spc = "idle"
    /\ Len(emailRows) = 2
    /\ emailRows[1].success = 0
    /\ emailRows[2].success = 1
    /\ \E f \in DOMAIN logFiles :
           /\ Len(logFiles[f]) = 5
           /\ logFiles[f][3].kind = "email" /\ ~logFiles[f][3].success
           /\ logFiles[f][4].kind = "email" /\ logFiles[f][4].success
           /\ logFiles[f][5].kind = "summary"

\* C34: in every state of the store an organization with an error message
\* has status failed; a reset and a write of success or manual leave the
\* error message null.
C34_ErrorState ==
    \A n \in DOMAIN organizations :
        organizations[n].error_message # NULL => organizations[n].status = "failed"

C34_ErrorStep ==
    \A n \in DOMAIN organizations :
        (/\ organizations'[n] # organizations[n]
         /\ organizations'[n].status \in {"pending", "success", "manual"}) =>
            organizations'[n].error_message = NULL

C34_ErrorOnlyWhenFailed == [](C34_ErrorState) /\ [][C34_ErrorStep]_vars

\* a row written twice, the second time with success, has no error message
C34_Witness ==
    \E n \in DOMAIN organizations :
        /\ organizations[n].status = "success"
        /\ organizations[n].error_message = NULL
        /\ organizations[n].attempts = 2

\* C35: an organization stored with contact_type email or both has as its
\* contact_value the email the selector chose, an email address and not the
\* form URL; one stored with contact_type form has the selector's formUrl.
C35_ValueMatchesType ==
    /\ pc = "okB_log" =>
           LET row == organizations[org.name]
           IN  /\ row.contact_type \in {"email", "both"} =>
                      row.contact_value = contactInfo.email
               /\ row.contact_type = "form" => row.contact_value = contactInfo.formUrl
    /\ \A n \in DOMAIN organizations :
           organizations[n].contact_type \in {"email", "both"} =>
               /\ organizations[n].contact_value # NULL
               /\ includes(organizations[n].contact_value, <<"@">>)

\* C36: in every state of the store a failed organization has contact_type
\* none and contact_value null, also when an earlier pass had stored a
\* channel for it; a failure of stage A leaves its website as it was and a
\* failure of stage B leaves it with a website.
C36_FailedState ==
    \A n \in DOMAIN organizations :
        organizations[n].status = "failed" =>
            /\ organizations[n].contact_type = "none"
            /\ organizations[n].contact_value = NULL

C36_FailedStep ==
    \A n \in DOMAIN organizations :
        (organizations'[n] # organizations[n] /\ organizations'[n].status = "failed") =>
            /\ pc = "failA_update" => organizations'[n].website = organizations[n].website
            /\ organizations[n].website # NULL => organizations'[n].website # NULL

C36_FailedHasNoChannel == [](C36_FailedState) /\ [][C36_FailedStep]_vars

\* an organization that a pass ended in success and that kept its website is
\* failed after a later pass
C36_Witness ==
    \E n \in DOMAIN organizations :
        /\ organizations[n].status = "failed"
        /\ organizations[n].attempts = 2
        /\ organizations[n].website # NULL
        /\ \E j \in ownedRows(attempts, organizations[n].id) :
               attempts[j].attempt_type = "contact_find" /\ attempts[j].success = 1
        /\ pc = "idle"

\* no organization is between its search and the Attempt that ends its turn
atRest == pc \in {"idle", "search", "finally"}

\* C37: whenever no organization is being processed, the attempts counter of
\* every organization equals the number of Attempt rows of type search it
\* owns.
C37_CounterIsSearchRows ==
    atRest =>
        \A n \in DOMAIN organizations :
            organizations[n].attempts =
                Cardinality({j \in ownedRows(attempts, organizations[n].id) :
                                attempts[j].attempt_type = "search"})

\* an organization processed in two passes, between two organizations of
\* the second pass or after it
C37_Witness ==
    /\ atRest
    /\ \E n \in DOMAIN organizations :
           /\ organizations[n].attempts = 2
           /\ organizations[n].status \in {"success", "manual"}

\* C38: the Attempt of type contact_find a pass appends for an organization
\* has success = 1 iff the status the pass stored for it is success; for
\* manual and for failed it has success = 0.
C38_FindStep ==
    Len(attempts') = Len(attempts) + 1 =>
        LET row == attempts'[Len(attempts')]
        IN  row.attempt_type = "contact_find" =>
                /\ pc \in {"errB_log", "okB_log"}
                /\ row.org_id = organizations[org.name].id
                /\ row.success = 1 <=> organizations[org.name].status = "success"
                /\ organizations[org.name].status \in {"manual", "failed"} =>
                       row.success = 0
                /\ organizations' = organizations

C38_FindState ==
    pc \in {"errB_log", "okB_log"} =>
        organizations[org.name].status \in {"success", "manual", "failed"}

C38_FindSuccessIffSuccess == [](C38_FindState) /\ [][C38_FindStep]_vars

\* an organization ended manual, its page read without error, and its
\* Attempt of type contact_find has success = 0
C38_Witness ==
    \E n \in DOMAIN organizations :
        /\ organizations[n].status = "manual"
        /\ organizations[n].error_message = NULL
        /\ \E j \in ownedRows(attempts, organizations[n].id) :
               /\ attempts[j].attempt_type = "contact_find"
               /\ attempts[j].success = 0
               /\ j = Len(attempts)

====
